---------------------------- MODULE Spec2Model ----------------------------
(***************************************************************************)
(* A model of wordplay-rs: the alphabet normalizer, the 26-ary trie with   *)
(* its lazy traversal engine, the anagram-number encoding, the letter      *)
(* frequency vector and the dictionary facade.                             *)
(*                                                                         *)
(* Encodings used throughout:                                              *)
(*   - a char is its Unicode code point, a &str is a sequence of them;     *)
(*   - a NormalizedChar is its enum discriminant 0..25 (A = 0 .. Z = 25);  *)
(*   - Option<T> is a sequence: None is << >>, Some(x) is << x >>;         *)
(*   - a trie is a sequence of nodes, the root first; a child relation is  *)
(*     the index of the owned child node, or 0 for an absent child.        *)
(***************************************************************************)
EXTENDS Integers, Sequences, FiniteSets

VARIABLES
    trie,       \* Trie<T>: the nodes, trie[1] is the root
    added,      \* history: the (key, value) of every Trie::add call, in call order
    iter,       \* Option<TrieIter>: the live traversal, if any
    results,    \* what each next() call on the live traversal returned, in call order
    visits,     \* history: every TrieIter::visit of the live traversal, in call order
    found,      \* Option: the last Dictionary::find, its argument and what it returned
    searched,   \* Option: the last Dictionary::iter_search, its query and what it gave
    w1, w2,     \* the two words (upper-case ASCII spellings) under comparison
    num1, num2, \* Option<Result<AnagramNumber, AnagramNumberOverflow>> of w1 and of w2
    cmp,        \* Option: what the two compare functions returned for (w1, w2)
    text,       \* a &str handed to the normalizer
    normText,   \* Option<NormalizedWord>: what from_str_safe(text) returned
    fa, fb,     \* two CharFreq values (the 26 counts of each)
    fcmp,       \* Option: what fa.compare(&fb) returned
    freq        \* Option: the build and the outcome of CharFreq::from(text)

trieVars == << trie, added, iter, results, visits >>
anagVars == << w1, w2, num1, num2, cmp >>
normVars == << text, normText >>
freqVars == << fa, fb, fcmp, freq >>
vars == << trie, added, iter, results, visits, found, searched, w1, w2, num1, num2, cmp,
          text, normText, fa, fb, fcmp, freq >>

\* ------------------------------------------------------------------ bounds

MaxAdds == 3
MaxDepth == 3
MaxWordLen == 2
\* next() calls made on a traversal after it first returned None
MaxLateCalls == 2
\* Dictionary::insert calls in the search machine
MaxInserts == 4
\* characters of a text handed to the normalizer
MaxTextLen == 3
\* the largest code point tried on its own
MaxChar == 383
\* the largest small count of a letter in a CharFreq under comparison
MaxFreq == 2
\* the longest run of one letter in a word handed to CharFreq::from
MaxRun == 256
\* the most predicates directly under one All or Any
MaxPredicates == 2

\* ------------------------------------------------------- Option encoding

None == << >>
Some(x) == << x >>

\* What a call gives back: << "Returned", value >>, or << "Panicked", message >>
\* when the call unwinds.
Returned(x) == << "Returned", x >>
Panicked(msg) == << "Panicked", msg >>

\* --------------------------------------------------- alphabet normalizer

ALPHABET_SIZE == 26

NormalizedChar == 0 .. (ALPHABET_SIZE - 1)

to_ascii_uppercase(ch) == IF ch >= 97 /\ ch <= 122 THEN ch - 32 ELSE ch

\* The match arms of from_char for the accented Latin-1 letters.
AccentedBase_no_tilde(ch) ==
    CASE ch \in {225, 193, 226, 194, 228, 196, 224, 192, 229, 197} -> Some(0)
      [] ch \in {231, 199} -> Some(2)
      [] ch \in {233, 201, 234, 202, 235, 203, 232, 200} -> Some(4)
      [] ch \in {237, 205, 238, 206, 239, 207, 236, 204} -> Some(8)
      [] ch \in {243, 211, 244, 212, 246, 214, 242, 210} -> Some(14)
      [] ch \in {250, 218, 251, 219, 252, 220, 249, 217} -> Some(20)
      [] ch \in {253, 221} -> Some(24)
      [] OTHER -> None

AccentedBase(ch) ==
    CASE ch \in {225, 193, 226, 194, 228, 196, 224, 192, 227, 195, 229, 197} -> Some(0)
      [] ch \in {231, 199} -> Some(2)
      [] ch \in {233, 201, 234, 202, 235, 203, 232, 200} -> Some(4)
      [] ch \in {237, 205, 238, 206, 239, 207, 236, 204} -> Some(8)
      [] ch \in {241, 209} -> Some(13)
      [] ch \in {243, 211, 244, 212, 246, 214, 242, 210, 245, 213} -> Some(14)
      [] ch \in {250, 218, 251, 219, 252, 220, 249, 217} -> Some(20)
      [] ch \in {253, 221} -> Some(24)
      [] OTHER -> None

from_char_nofold(ch) ==
    IF ch >= 65 /\ ch <= 90 THEN Some(ch - 65) ELSE AccentedBase(ch)

from_char(ch) ==
    LET ascii_ch == to_ascii_uppercase(ch)
    IN  IF ascii_ch >= 65 /\ ascii_ch <= 90
        THEN Some(ascii_ch - 65)
        ELSE AccentedBase(ch)

RECURSIVE FilterMapChars(_, _)
FilterMapChars(str, i) ==
    IF i > Len(str) THEN << >>
    ELSE from_char(str[i]) \o FilterMapChars(str, i + 1)

from_str_safe(str) == FilterMapChars(str, 1)

\* derive(PartialOrd, Ord) on NormalizedWord: lexicographic on the letters,
\* a proper prefix before its extensions.
RECURSIVE WordLess(_, _)
WordLess(u, v) ==
    IF Len(v) = 0 THEN FALSE
    ELSE IF Len(u) = 0 THEN TRUE
    ELSE IF u[1] # v[1] THEN u[1] < v[1]
    ELSE WordLess(Tail(u), Tail(v))

\* ------------------------------------------------------------ char match

Any == << "Any" >>
Only(c) == << "Only", c >>
Panic == << "Panic" >>

CharMatchFrom_onlyQuestionMark(ch) ==
    IF ch = 63 THEN Any
    ELSE IF from_char(ch) = None THEN Panic
    ELSE Only(from_char(ch)[1])

\* A From<char> for CharMatch that takes an unmapped character for a wildcard.
CharMatchFrom_lenient(ch) ==
    IF ch \in {32, 46, 63} THEN Any
    ELSE IF from_char(ch) = None THEN Any
    ELSE Only(from_char(ch)[1])

\* From<char> for CharMatch: ' ' (32), '.' (46) and '?' (63) are wildcards;
\* expect() panics on a character from_char does not map.
CharMatchFrom(ch) ==
    IF ch \in {32, 46, 63} THEN Any
    ELSE IF from_char(ch) = None THEN Panic
    ELSE Only(from_char(ch)[1])

matches(cm, ch) == IF cm = Any THEN TRUE ELSE cm = Only(ch)

\* ------------------------------------------------------------------ trie

TrieEmpty == [children |-> [c \in NormalizedChar |-> 0], terminals |-> << >>]

RootId == 1

\* A get_or_create_mut that boxes a fresh child whether or not one is there.
get_or_create_mut_always_new(t, node, child) ==
    [t |-> Append([t EXCEPT ![node].children[child] = Len(t) + 1], TrieEmpty),
     node |-> Len(t) + 1]

\* get_or_create_mut: the child of `node` at `child`, boxed afresh when absent.
get_or_create_mut(t, node, child) ==
    IF t[node].children[child] = 0
    THEN [t |-> Append([t EXCEPT ![node].children[child] = Len(t) + 1], TrieEmpty),
          node |-> Len(t) + 1]
    ELSE [t |-> t, node |-> t[node].children[child]]

RECURSIVE AddWalk_dedup(_, _, _, _, _)
AddWalk_dedup(t, node, key, i, value) ==
    IF i > Len(key)
    THEN IF \E k \in 1 .. Len(t[node].terminals) : t[node].terminals[k] = value
         THEN t
         ELSE [t EXCEPT ![node].terminals = Append(@, value)]
    ELSE LET r == get_or_create_mut(t, node, key[i])
         IN  AddWalk_dedup(r.t, r.node, key, i + 1, value)

\* An add that pushes the value on every node it walks through.
RECURSIVE AddWalk_push_on_path(_, _, _, _, _)
AddWalk_push_on_path(t, node, key, i, value) ==
    IF i > Len(key)
    THEN [t EXCEPT ![node].terminals = Append(@, value)]
    ELSE LET pushed == [t EXCEPT ![node].terminals = Append(@, value)]
             r == get_or_create_mut(pushed, node, key[i])
         IN  AddWalk_push_on_path(r.t, r.node, key, i + 1, value)

RECURSIVE AddWalk(_, _, _, _, _)
AddWalk(t, node, key, i, value) ==
    IF i > Len(key)
    THEN [t EXCEPT ![node].terminals = Append(@, value)]
    ELSE LET r == get_or_create_mut(t, node, key[i])
         IN  AddWalk(r.t, r.node, key, i + 1, value)

add_dedup(t, key, value) == AddWalk_dedup(t, RootId, key, 1, value)

add(t, key, value) == AddWalk(t, RootId, key, 1, value)

add_string(t, str, value) == add(t, from_str_safe(str), value)

RECURSIVE GetWalk(_, _, _, _)
GetWalk(t, node, key, i) ==
    IF i > Len(key) THEN Some(t[node].terminals)
    ELSE IF t[node].children[key[i]] = 0 THEN None
    ELSE GetWalk(t, t[node].children[key[i]], key, i + 1)

get_absent_without_terminals(t, key) ==
    LET r == GetWalk(t, RootId, key, 1)
    IN  IF r # None /\ Len(r[1]) = 0 THEN None ELSE r

\* Trie::get
get(t, key) == GetWalk(t, RootId, key, 1)

\* ------------------------------------------------- prefix and descriptor

RECURSIVE MapCharMatch(_, _)
MapCharMatch(str, i) ==
    IF i > Len(str) THEN << >>
    ELSE << CharMatchFrom(str[i]) >> \o MapCharMatch(str, i + 1)

from_pattern(str) == MapCharMatch(str, 1)

any_with_length(len) == [i \in 1 .. len |-> Any]

\* A get_char_restriction that restricts nothing.
get_char_restriction_unrestricted(prefix, depth) == Any

\* TriePrefix::get_char_restriction: depth is 0-based.
get_char_restriction(prefix, depth) ==
    IF depth < Len(prefix) THEN prefix[depth + 1] ELSE Any

TrieSearchNew(prefix, max_depth) == [prefix |-> prefix, max_depth |-> max_depth]

TrieSearchDefault == TrieSearchNew(<< >>, None)

from_prefix(str) == TrieSearchNew(from_pattern(str), None)

with_max(search, max) == [search EXCEPT !.max_depth = Some(max)]

exactly(str) ==
    LET search == from_prefix(str)
    IN  with_max(search, Len(search.prefix))

\* An iter_range that takes the end of the range as exclusive.
iter_range_exclusive_end(lo, hi) ==
    TrieSearchNew(any_with_length(lo), IF hi > 0 THEN Some(hi - 1) ELSE Some(0))

\* Trie::iter_range(lo ..= hi): the descriptor it hands to TrieIter::new.
iter_range(lo, hi) == TrieSearchNew(any_with_length(lo), Some(hi))

below_max_inclusive(search, depth) ==
    IF search.max_depth = None THEN TRUE ELSE depth <= search.max_depth[1]

below_max(search, depth) ==
    IF search.max_depth = None THEN TRUE ELSE depth < search.max_depth[1]

\* ------------------------------------------------------------- traversal

Reverse(s) == [i \in 1 .. Len(s) |-> s[Len(s) + 1 - i]]

LettersInOrder == [i \in 1 .. ALPHABET_SIZE |-> i - 1]

ChildEntries_same_word(t, word, node, restriction) ==
    LET sel == SelectSeq(LettersInOrder,
                         LAMBDA ch : matches(restriction, ch)
                                     /\ t[node].children[ch] # 0)
    IN  [k \in 1 .. Len(sel) |->
            [word |-> word, node |-> t[node].children[sel[k]]]]

\* The children pushed by a visit: CharMap::iter in letter order, filtered by
\* the restriction and by presence, each with its own copy of the word.
ChildEntries(t, word, node, restriction) ==
    LET sel == SelectSeq(LettersInOrder,
                         LAMBDA ch : matches(restriction, ch)
                                     /\ t[node].children[ch] # 0)
    IN  [k \in 1 .. Len(sel) |->
            [word |-> Append(word, sel[k]), node |-> t[node].children[sel[k]]]]

TerminalEntries(t, word, node) ==
    [k \in 1 .. Len(t[node].terminals) |->
        [word |-> word, value |-> t[node].terminals[k]]]

TrieIter_new(root, search) ==
    [search |-> search,
     node_queue |-> << [word |-> << >>, node |-> root] >>,
     terminal_queue |-> << >>]

TrieIter_visit_no_rev(it, t, word, node) ==
    LET depth == Len(word)
        prefix_len == Len(it.search.prefix)
        tq == IF prefix_len <= depth
              THEN it.terminal_queue \o TerminalEntries(t, word, node)
              ELSE it.terminal_queue
        nq == IF below_max(it.search, depth)
              THEN it.node_queue
                   \o ChildEntries(t, word, node,
                                   get_char_restriction(it.search.prefix, depth))
              ELSE it.node_queue
    IN  [it EXCEPT !.terminal_queue = tq, !.node_queue = nq]

TrieIter_visit_all_terminals(it, t, word, node) ==
    LET depth == Len(word)
        tq == it.terminal_queue \o TerminalEntries(t, word, node)
        nq == IF below_max(it.search, depth)
              THEN it.node_queue
                   \o Reverse(ChildEntries(t, word, node,
                                  get_char_restriction(it.search.prefix, depth)))
              ELSE it.node_queue
    IN  [it EXCEPT !.terminal_queue = tq, !.node_queue = nq]

TrieIter_visit(it, t, word, node) ==
    LET depth == Len(word)
        prefix_len == Len(it.search.prefix)
        tq == IF prefix_len <= depth
              THEN it.terminal_queue \o TerminalEntries(t, word, node)
              ELSE it.terminal_queue
        nq == IF below_max(it.search, depth)
              THEN it.node_queue
                   \o Reverse(ChildEntries(t, word, node,
                                  get_char_restriction(it.search.prefix, depth)))
              ELSE it.node_queue
    IN  [it EXCEPT !.terminal_queue = tq, !.node_queue = nq]

\* A next that visits the whole worklist before it returns anything.
RECURSIVE TrieIter_next_eager(_, _)
TrieIter_next_eager(it, t) ==
    IF Len(it.node_queue) > 0
    THEN LET last == it.node_queue[Len(it.node_queue)]
             popped == [it EXCEPT !.node_queue = SubSeq(@, 1, Len(@) - 1)]
         IN  TrieIter_next_eager(TrieIter_visit(popped, t, last.word, last.node), t)
    ELSE IF Len(it.terminal_queue) > 0
    THEN [iter |-> [it EXCEPT !.terminal_queue = Tail(@)],
          item |-> Some(Head(it.terminal_queue))]
    ELSE [iter |-> it, item |-> None]

\* Iterator::next: drain the terminal queue first; otherwise pop the back of
\* the node worklist, visit it and retry; None when both are empty.
RECURSIVE TrieIter_next(_, _)
TrieIter_next(it, t) ==
    IF Len(it.terminal_queue) > 0
    THEN [iter |-> [it EXCEPT !.terminal_queue = Tail(@)],
          item |-> Some(Head(it.terminal_queue))]
    ELSE IF Len(it.node_queue) > 0
    THEN LET last == it.node_queue[Len(it.node_queue)]
             popped == [it EXCEPT !.node_queue = SubSeq(@, 1, Len(@) - 1)]
         IN  TrieIter_next(TrieIter_visit(popped, t, last.word, last.node), t)
    ELSE [iter |-> it, item |-> None]

\* The visits one next() call makes, in order: for each entry popped from the
\* back of the worklist, the entry and the children that visit pushed.
RECURSIVE NextVisits(_, _)
NextVisits(it, t) ==
    IF Len(it.terminal_queue) > 0 THEN << >>
    ELSE IF Len(it.node_queue) > 0
    THEN LET last == it.node_queue[Len(it.node_queue)]
             popped == [it EXCEPT !.node_queue = SubSeq(@, 1, Len(@) - 1)]
             after == TrieIter_visit(popped, t, last.word, last.node)
         IN  << [word |-> last.word, node |-> last.node,
                 pushed |-> SubSeq(after.node_queue, Len(popped.node_queue) + 1,
                                   Len(after.node_queue))] >>
             \o NextVisits(after, t)
    ELSE << >>

\* The traversal as the invocation of next() that returns finds it: the
\* state after every visit-and-retry of this call.
RECURSIVE NextFinal(_, _)
NextFinal(it, t) ==
    IF Len(it.terminal_queue) > 0 THEN it
    ELSE IF Len(it.node_queue) > 0
    THEN LET last == it.node_queue[Len(it.node_queue)]
             popped == [it EXCEPT !.node_queue = SubSeq(@, 1, Len(@) - 1)]
         IN  NextFinal(TrieIter_visit(popped, t, last.word, last.node), t)
    ELSE it

\* -------------------------------------------------------- anagram number

\* UnsignedAnag = u128.  TLC's integers are 32 bits wide, so a u128 is held as
\* LimbCount limbs of 16 bits, least significant first.
U128_BITS == 128

LimbBase == 2 ^ 16

LimbCount == U128_BITS \div 16

U128Zero == [i \in 1 .. LimbCount |-> 0]

U128One == [i \in 1 .. LimbCount |-> IF i = 1 THEN 1 ELSE 0]

\* Schoolbook multiplication of a limb sequence by a factor below LimbBase:
\* the limbs of x * p + carry from limb i on, the outgoing carry last.
RECURSIVE MulLimbs(_, _, _, _)
MulLimbs(x, p, i, carry) ==
    IF i > Len(x) THEN << carry >>
    ELSE LET v == x[i] * p + carry
         IN  << v % LimbBase >> \o MulLimbs(x, p, i + 1, v \div LimbBase)

wrapping_mul(x, p) == Some(SubSeq(MulLimbs(x, p, 1, 0), 1, LimbCount))

\* u128::checked_mul, the right operand being a prime of PRIMES_MAP:
\* None when the product does not fit the 128 bits.
checked_mul(x, p) ==
    LET full == MulLimbs(x, p, 1, 0)
    IN  IF full[LimbCount + 1] = 0 THEN Some(SubSeq(full, 1, LimbCount)) ELSE None

PRIMES_MAP_square ==
    <<  5, 25, 41, 29,  2, 47, 61, 23, 11, 97, 79, 31, 43,
       13,  7, 67, 89, 19, 17,  3, 37, 73, 59, 83, 53, 101 >>

PRIMES_MAP_typo ==
    <<  5, 71, 15, 29,  2, 47, 61, 23, 11, 97, 79, 31, 43,
       13,  7, 67, 89, 19, 17,  3, 37, 73, 59, 83, 53, 101 >>

\* PRIMES_MAP, letter c at index c + 1.
PRIMES_MAP ==
    <<  5, 71, 41, 29,  2, 47, 61, 23, 11, 97, 79, 31, 43,
       13,  7, 67, 89, 19, 17,  3, 37, 73, 59, 83, 53, 101 >>

\* Result<AnagramNumber, AnagramNumberOverflow>
Ok(x) == << "Ok", x >>
Err(e) == << "Err", e >>
AnagramNumberOverflow == "AnagramNumberOverflow"
IsOk(r) == r[1] = "Ok"

\* Result::ok
ResultOk(r) == IF IsOk(r) THEN Some(r[2]) ELSE None

RECURSIVE TryFromWalk(_, _, _)
TryFromWalk(word, i, x) ==
    IF i > Len(word) THEN Ok(x)
    ELSE LET m == checked_mul(x, PRIMES_MAP[word[i] + 1])
         IN  IF m = None THEN Err(AnagramNumberOverflow)
             ELSE TryFromWalk(word, i + 1, m[1])

\* A try_from that leaves the first letter out of the product.
try_from_skip_first(word) == TryFromWalk(word, 2, U128One)

\* TryFrom<&NormalizedWord> for AnagramNumber
try_from(word) == TryFromWalk(word, 1, U128One)

\* a < b on limb sequences of equal length, from limb i down.
RECURSIVE LessFrom(_, _, _)
LessFrom(a, b, i) ==
    IF i = 0 THEN FALSE
    ELSE IF a[i] # b[i] THEN a[i] < b[i]
    ELSE LessFrom(a, b, i - 1)

U128Less(a, b) == LessFrom(a, b, LimbCount)

RECURSIVE SubLimbs(_, _, _, _)
SubLimbs(r, a, i, borrow) ==
    IF i > Len(r) THEN << >>
    ELSE LET v == r[i] - a[i] - borrow
         IN  IF v < 0 THEN << v + LimbBase >> \o SubLimbs(r, a, i + 1, 1)
             ELSE << v >> \o SubLimbs(r, a, i + 1, 0)

\* Binary long division, one limb of the dividend at a time: the remainder
\* after bits k..0 of `limb` have been shifted in; r and a carry one limb more
\* than a u128.
RECURSIVE RemBits(_, _, _, _)
RemBits(limb, a, k, r) ==
    IF k < 0 THEN r
    ELSE LET bit == (limb \div (2 ^ k)) % 2
             shifted == SubSeq(MulLimbs(r, 2, 1, bit), 1, Len(r))
         IN  IF LessFrom(shifted, a, Len(a))
             THEN RemBits(limb, a, k - 1, shifted)
             ELSE RemBits(limb, a, k - 1, SubLimbs(shifted, a, 1, 0))

RECURSIVE RemLimbs(_, _, _, _)
RemLimbs(b, a, i, r) ==
    IF i = 0 THEN r
    ELSE IF b[i] = 0 /\ r = Append(U128Zero, 0)
         THEN RemLimbs(b, a, i - 1, r)   \* sixteen zero bits into a zero remainder
         ELSE RemLimbs(b, a, i - 1, RemBits(b[i], a, 15, r))

\* Whether every limb above the lowest is zero.
OneLimb(x) == \A i \in 2 .. LimbCount : x[i] = 0

\* b % a on u128, a # 0: on the lowest limbs when both operands fit one limb,
\* by binary long division otherwise.
U128Rem(b, a) ==
    IF OneLimb(a) /\ OneLimb(b)
    THEN [U128Zero EXCEPT ![1] = b[1] % a[1]]
    ELSE SubSeq(RemLimbs(b, Append(a, 0), LimbCount, Append(U128Zero, 0)), 1, LimbCount)

\* AnagramNumber::compare; a remainder by zero panics.
AnagramCompare(a, b) ==
    IF a = b THEN "Exact"
    ELSE IF U128Less(a, b)
    THEN IF a = U128Zero THEN "Panic"
         ELSE IF U128Rem(b, a) = U128Zero THEN "Superset" ELSE "Unrelated"
    ELSE IF b = U128Zero THEN "Panic"
         ELSE IF U128Rem(a, b) = U128Zero THEN "Subset" ELSE "Unrelated"

\* ------------------------------------------------ letter-frequency vector

CharFreqNewEmpty == [i \in 0 .. 25 |-> 0]

\* The largest value of a count (freqs: [u8; 26]).
U8_MAX == 255

\* |x| x + 1 on a u8 (the wrap of a release build at 255).
IncU8(x) == (x + 1) % 256

\* CharFreq::update(ch, |x| x + 1)
CharFreqUpdate(freqs, ch) == [freqs EXCEPT ![ch - 65] = IncU8(@)]

RECURSIVE CharFreqFromWalk(_, _, _)
CharFreqFromWalk(word, i, res) ==
    IF i > Len(word) THEN res
    ELSE IF 65 <= word[i] /\ word[i] <= 90
    THEN CharFreqFromWalk(word, i + 1, CharFreqUpdate(res, word[i]))
    ELSE CharFreqFromWalk(word, i + 1, res)

\* CharFreq::from(&AsciiStr): counts the characters 'A'..='Z'.
CharFreqFrom(word) == CharFreqFromWalk(word, 1, CharFreqNewEmpty)

\* |x| x + 1 on a u8, by build: with overflow checks (the default of a debug
\* build) 255 + 1 panics, without them (the default of a release build) it
\* wraps to 0.
add_one_u8(x, overflow_checks) ==
    IF x + 1 > U8_MAX
    THEN IF overflow_checks THEN Panicked("attempt to add with overflow")
         ELSE Returned((x + 1) % (U8_MAX + 1))
    ELSE Returned(x + 1)

\* One turn of the loop of CharFreq::from(&AsciiStr): a character between
\* 'A' and 'Z' adds one to its count, any other character is passed over.
CharFreqFromStep(ch, res, overflow_checks) ==
    IF 65 <= ch /\ ch <= 90
    THEN LET next == add_one_u8(res[ch - 65], overflow_checks)
         IN  IF next[1] = "Panicked" THEN next
             ELSE Returned([res EXCEPT ![ch - 65] = next[2]])
    ELSE Returned(res)

\* The loop of CharFreq::from(&AsciiStr) over the characters lo .. hi of the
\* word, left to right, starting from res; a panic ends it.  The range is
\* walked as its first half followed by its second half.
RECURSIVE CharFreqFromWalkIn(_, _, _, _, _)
CharFreqFromWalkIn(word, lo, hi, res, overflow_checks) ==
    IF lo > hi THEN Returned(res)
    ELSE IF lo = hi THEN CharFreqFromStep(word[lo], res, overflow_checks)
    ELSE LET mid == (lo + hi) \div 2
             first == CharFreqFromWalkIn(word, lo, mid, res, overflow_checks)
         IN  IF first[1] = "Panicked" THEN first
             ELSE CharFreqFromWalkIn(word, mid + 1, hi, first[2], overflow_checks)

\* CharFreq::from(&AsciiStr) in a build with or without overflow checks.
CharFreqFromIn(word, overflow_checks) ==
    CharFreqFromWalkIn(word, 1, Len(word), CharFreqNewEmpty, overflow_checks)

Abs(x) == IF x < 0 THEN -x ELSE x

RECURSIVE CompareWalk_firstDifference(_, _, _, _, _)
CompareWalk_firstDifference(a, b, i, comp, diff) ==
    IF i = 26
    THEN IF comp = "Same" THEN << "Same" >> ELSE << comp, diff >>
    ELSE IF a[i] = b[i] THEN CompareWalk_firstDifference(a, b, i + 1, comp, diff)
    ELSE CompareWalk_firstDifference(a, b, i + 1,
             IF comp = "Same" THEN (IF a[i] < b[i] THEN "Subset" ELSE "Superset")
             ELSE comp,
             [diff EXCEPT ![i] = Abs(a[i] - b[i])])

RECURSIVE CompareWalk(_, _, _, _, _)
CompareWalk(a, b, i, comp, diff) ==
    IF i = 26
    THEN IF comp = "Same" THEN << "Same" >> ELSE << comp, diff >>
    ELSE IF a[i] = b[i] THEN CompareWalk(a, b, i + 1, comp, diff)
    ELSE IF a[i] < b[i]
    THEN IF comp = "Superset" THEN << "Unrelated" >>
         ELSE CompareWalk(a, b, i + 1, "Subset", [diff EXCEPT ![i] = b[i] - a[i]])
    ELSE IF comp = "Subset" THEN << "Unrelated" >>
         ELSE CompareWalk(a, b, i + 1, "Superset", [diff EXCEPT ![i] = a[i] - b[i]])

CharFreqCompare_swapped(self, other) ==
    CompareWalk(other, self, 0, "Same", CharFreqNewEmpty)

CharFreqCompare_firstDifference(self, other) ==
    CompareWalk_firstDifference(self, other, 0, "Same", CharFreqNewEmpty)

\* CharFreq::compare
CharFreqCompare(self, other) == CompareWalk(self, other, 0, "Same", CharFreqNewEmpty)

\* ------------------------------------------------------------ dictionary

\* CharFreq::from(&NormalizedWord) of the core crate: counts each letter.
CharFreqFromWord(word) ==
    [c \in 0 .. 25 |-> Cardinality({i \in 1 .. Len(word) : word[i] = c})]

\* Dictionary::insert
insert(t, original) ==
    LET normalized == from_str_safe(original)
        char_freq == CharFreqFromWord(normalized)
        anag_num == ResultOk(try_from(normalized))
        entry == [char_freq |-> char_freq, anag_num |-> anag_num, original |-> original]
    IN  add(t, normalized, entry)

\* Dictionary::find
find(t, word) == get(t, word)

\* WordPredicate: << "AnagramOf", n >>, << "SubanagramOf", n >>,
\* << "SuperanagramOf", n >>, << "All", predicates >>, << "Any", predicates >>
\* and << "None" >>.
AnagramOf(n) == << "AnagramOf", n >>
SubanagramOf(n) == << "SubanagramOf", n >>
SuperanagramOf(n) == << "SuperanagramOf", n >>
PredicateNone == << "None" >>

\* A matches with the SubanagramOf and SuperanagramOf arms exchanged.
RECURSIVE WordPredicate_matches_swapped(_, _)
WordPredicate_matches_swapped(pred, entry) ==
    IF pred[1] = "AnagramOf"
    THEN IF entry.anag_num = None THEN FALSE
         ELSE AnagramCompare(pred[2], entry.anag_num[1]) = "Exact"
    ELSE IF pred[1] = "SubanagramOf"
    THEN IF entry.anag_num = None THEN TRUE
         ELSE AnagramCompare(pred[2], entry.anag_num[1]) = "Superset"
    ELSE IF pred[1] = "SuperanagramOf"
    THEN IF entry.anag_num = None THEN TRUE
         ELSE AnagramCompare(pred[2], entry.anag_num[1]) = "Subset"
    ELSE IF pred[1] = "All"
    THEN \A k \in 1 .. Len(pred[2]) : WordPredicate_matches_swapped(pred[2][k], entry)
    ELSE IF pred[1] = "Any"
    THEN \E k \in 1 .. Len(pred[2]) : WordPredicate_matches_swapped(pred[2][k], entry)
    ELSE TRUE

\* WordPredicate::matches; anag_num.map_or(default, |x| ...) is the default
\* when the entry has no anagram number and the comparison otherwise.
RECURSIVE WordPredicate_matches(_, _)
WordPredicate_matches(pred, entry) ==
    IF pred[1] = "AnagramOf"
    THEN IF entry.anag_num = None THEN FALSE
         ELSE AnagramCompare(pred[2], entry.anag_num[1]) = "Exact"
    ELSE IF pred[1] = "SubanagramOf"
    THEN IF entry.anag_num = None THEN TRUE
         ELSE AnagramCompare(pred[2], entry.anag_num[1]) = "Subset"
    ELSE IF pred[1] = "SuperanagramOf"
    THEN IF entry.anag_num = None THEN TRUE
         ELSE AnagramCompare(pred[2], entry.anag_num[1]) = "Superset"
    ELSE IF pred[1] = "All"
    THEN \A k \in 1 .. Len(pred[2]) : WordPredicate_matches(pred[2][k], entry)
    ELSE IF pred[1] = "Any"
    THEN \E k \in 1 .. Len(pred[2]) : WordPredicate_matches(pred[2][k], entry)
    ELSE TRUE

\* DictSearch::new
DictSearch_new(trie_search, predicate) ==
    [trie_search |-> trie_search, predicate |-> predicate]

\* DictSearch::from_pattern
DictSearch_from_pattern(pattern) ==
    LET prefix == from_pattern(pattern)
    IN  DictSearch_new(Some(TrieSearchNew(prefix, Some(Len(prefix)))), PredicateNone)

\* Result::unwrap
unwrap(r) ==
    IF IsOk(r) THEN Returned(r[2])
    ELSE Panicked("unwrap on an Err value")

anagram_of_no_predicate(str) ==
    LET word == from_str_safe(str)
        anagram == unwrap(try_from(word))
    IN  IF anagram[1] = "Panicked" THEN anagram
        ELSE Returned(DictSearch_new(
                 Some(TrieSearchNew(any_with_length(Len(word)), Some(Len(word)))),
                 PredicateNone))

\* DictSearch::anagram_of
anagram_of(str) ==
    LET word == from_str_safe(str)
        anagram == unwrap(try_from(word))
    IN  IF anagram[1] = "Panicked" THEN anagram
        ELSE Returned(DictSearch_new(
                 Some(TrieSearchNew(any_with_length(Len(word)), Some(Len(word)))),
                 AnagramOf(anagram[2])))

\* Option::unwrap_or_default
unwrap_or_default(opt) == IF opt = None THEN TrieSearchDefault ELSE opt[1]

\* Iterator::collect on a TrieIter: next() until None.
RECURSIVE CollectIter(_, _)
CollectIter(it, t) ==
    LET r == TrieIter_next(it, t)
    IN  IF r.item = None THEN << >>
        ELSE << r.item[1] >> \o CollectIter(r.iter, t)

\* DictIterItem::from((normalized, entry))
DictIterItem(e) ==
    [normalized |-> e.word, char_freq |-> e.value.char_freq,
     anag_num |-> e.value.anag_num, original |-> e.value.original]

\* Dictionary::iter_search, collected.
Dictionary_iter_search(t, search) ==
    LET trie_search == unwrap_or_default(search.trie_search)
        stored == CollectIter(TrieIter_new(RootId, trie_search), t)
        items == [k \in 1 .. Len(stored) |-> DictIterItem(stored[k])]
    IN  SelectSeq(items, LAMBDA x : WordPredicate_matches(search.predicate, x))

\* ---------------------------------------------------------------- inputs

\* "", "C", "CAR", "BAT", "COT", and spellings that normalize to the same
\* words: "bat", "Cár" (a-acute), "c-o t".
TrieStrings ==
    { << >>,
      << 67 >>,
      << 67, 65, 82 >>,
      << 66, 65, 84 >>,
      << 67, 79, 84 >>,
      << 98, 97, 116 >>,
      << 67, 225, 114 >>,
      << 99, 45, 111, 32, 116 >> }

Payloads == {1, 2}

\* "", "CA", "ca", "?A", ".a", " A"
Patterns ==
    { << >>,
      << 67, 65 >>,
      << 99, 97 >>,
      << 63, 65 >>,
      << 46, 97 >>,
      << 32, 65 >> }

MaxDepths == {None} \cup {Some(m) : m \in 0 .. MaxDepth}

NoPanic(prefix) == \A i \in 1 .. Len(prefix) : prefix[i] # Panic

\* ------------------------------------------------------- the state machine

TrieIdle ==
    /\ trie = << TrieEmpty >>
    /\ added = << >>
    /\ iter = None
    /\ results = << >>
    /\ visits = << >>
    /\ found = None
    /\ searched = None

AnagIdle ==
    /\ w1 = << >>
    /\ w2 = << >>
    /\ num1 = None
    /\ num2 = None
    /\ cmp = None

NormIdle ==
    /\ text = << >>
    /\ normText = None

FreqIdle ==
    /\ fa = CharFreqNewEmpty
    /\ fb = CharFreqNewEmpty
    /\ fcmp = None
    /\ freq = None

Init == TrieIdle /\ AnagIdle /\ NormIdle /\ FreqIdle

\* Trie::add_string(str, value); needs &mut self, so no traversal is live.
\* T is opaque to the trie (payloads are stored and handed back, never
\* compared), so the first payload of a spelling is always called 2; later
\* payloads of that spelling are 1 (a different one) or 2 (an equal one).
AddString(str, value) ==
    /\ iter = None
    /\ Len(added) < MaxAdds
    /\ value = 2 \/ \E i \in 1 .. Len(added) : added[i].word = from_str_safe(str)
    /\ trie' = add_string(trie, str, value)
    /\ added' = Append(added, [word |-> from_str_safe(str), value |-> value])
    /\ UNCHANGED << iter, results, visits, found, searched, anagVars, normVars, freqVars >>

StartIter(search) ==
    /\ iter = None
    /\ NoPanic(search.prefix)
    /\ iter' = Some(TrieIter_new(RootId, search))
    /\ results' = << >>
    /\ visits' = << >>
    /\ UNCHANGED << trie, added, found, searched, anagVars, normVars, freqVars >>

\* Trie::iter()
Iter == StartIter(TrieSearchDefault)

\* Trie::iter_search(TrieSearch::new(TriePrefix::from_pattern(p), m))
IterSearch(p, m) == StartIter(TrieSearchNew(from_pattern(p), m))

\* Trie::iter_search(TrieSearch::from_prefix(p))
IterPrefix(p) == StartIter(from_prefix(p))

\* Trie::iter_search(TrieSearch::exactly(p))
IterExactly(p) == StartIter(exactly(p))

Exhausted == Len(results) > 0 /\ results[Len(results)] = None

\* How many next() calls have returned None so far.
NoneCount == Cardinality({i \in 1 .. Len(results) : results[i] = None})

\* A traversal is live and its caller is still followed: the caller may go on
\* calling next() after None, and at most MaxLateCalls such calls are followed.
CanCall == iter # None /\ NoneCount <= MaxLateCalls

\* One next() call on the live traversal.
NextCall ==
    /\ CanCall
    /\ LET r == TrieIter_next(iter[1], trie)
       IN  /\ iter' = Some(r.iter)
           /\ results' = Append(results, r.item)
           /\ visits' = visits \o NextVisits(iter[1], trie)
    /\ UNCHANGED << trie, added, found, searched, anagVars, normVars, freqVars >>

\* The traversal is dropped (possibly before it is exhausted).
Drop ==
    /\ iter # None
    /\ iter' = None
    /\ results' = << >>
    /\ visits' = << >>
    /\ UNCHANGED << trie, added, found, searched, anagVars, normVars, freqVars >>

Next ==
    \/ \E str \in TrieStrings, value \in Payloads : AddString(str, value)
    \/ Iter
    \/ \E p \in Patterns, m \in MaxDepths : IterSearch(p, m)
    \/ \E p \in Patterns : IterPrefix(p)
    \/ \E p \in Patterns : IterExactly(p)
    \/ NextCall
    \/ Drop

Spec == Init /\ [][Next]_vars

\* A caller that keeps calling next() on the traversal it created and never
\* drops it: the same operations without Drop, next() being called again as
\* long as the caller is followed.
NextTerm ==
    \/ \E str \in TrieStrings, value \in Payloads : AddString(str, value)
    \/ Iter
    \/ \E p \in Patterns, m \in MaxDepths : IterSearch(p, m)
    \/ \E p \in Patterns : IterPrefix(p)
    \/ \E p \in Patterns : IterExactly(p)
    \/ NextCall

\* Weak fairness of NextCall, WF_vars(NextCall), with ENABLED <<NextCall>>_vars
\* written out: NextCall is enabled exactly when CanCall holds, and every
\* NextCall step changes results.
FairNextCall == []<>(~CanCall) \/ []<><<NextCall>>_vars

SpecTerm == Init /\ [][NextTerm]_vars /\ FairNextCall

\* ------------------------------------------ the depth-range state machine

\* "", "A", "AB", "ABC", "B"
RangeStrings ==
    { << >>, << 65 >>, << 65, 66 >>, << 65, 66, 67 >>, << 66 >> }

\* "", "A", "?B", "AB?", "???"
RangePatterns ==
    { << >>, << 65 >>, << 63, 66 >>, << 65, 66, 63 >>, << 63, 63, 63 >> }

\* Trie::iter_range(lo ..= hi)
IterRange(lo, hi) == StartIter(iter_range(lo, hi))

NextRange ==
    \/ \E str \in RangeStrings, value \in Payloads : AddString(str, value)
    \/ \E lo, hi \in 0 .. MaxDepth : IterRange(lo, hi)
    \/ \E p \in RangePatterns, m \in 0 .. MaxDepth : IterSearch(p, Some(m))
    \/ NextCall
    \/ Drop

SpecRange == Init /\ [][NextRange]_vars

\* ------------------------------------------- the dictionary state machine

\* "TEST", "test", "Test", "tEsT" with an e-acute, "foo", "", "te"
DictStrings ==
    { << 116, 101 >>,
      << 84, 69, 83, 84 >>,
      << 116, 101, 115, 116 >>,
      << 84, 101, 115, 116 >>,
      << 116, 201, 115, 84 >>,
      << 102, 111, 111 >>,
      << >> }

\* Dictionary::insert(original); &mut self, so no result of find is still held.
Insert(original) ==
    /\ Len(added) < MaxAdds
    /\ trie' = insert(trie, original)
    /\ added' = Append(added, [word |-> from_str_safe(original), original |-> original])
    /\ found' = None
    /\ UNCHANGED << iter, results, visits, searched, anagVars, normVars, freqVars >>

\* Dictionary::find(&NormalizedWord::from_str_safe(str))
Find(str) ==
    /\ found' = Some([str |-> str, result |-> find(trie, from_str_safe(str))])
    /\ UNCHANGED << trie, added, iter, results, visits, searched, anagVars, normVars, freqVars >>

NextDict ==
    \/ \E original \in DictStrings : Insert(original)
    \/ \E str \in DictStrings : Find(str)

SpecDict == Init /\ [][NextDict]_vars

\* ------------------------------------- the dictionary search state machine

\* "cat", "bat", "bait", "at", "tab" and twenty times 'Z'.
CorpusStrings ==
    { << 99, 97, 116 >>,
      << 98, 97, 116 >>,
      << 98, 97, 105, 116 >>,
      << 97, 116 >>,
      << 116, 97, 98 >>,
      [i \in 1 .. 20 |-> 90] }

\* "tab", "at" and twenty times 'Z'.
QueryStrings ==
    { << 116, 97, 98 >>,
      << 97, 116 >>,
      [i \in 1 .. 20 |-> 90] }

PredicateKinds == {"AnagramOf", "SubanagramOf", "SuperanagramOf"}

\* Dictionary::insert(original)
InsertCorpus(original) ==
    /\ searched = None
    /\ Len(added) < MaxInserts
    /\ trie' = insert(trie, original)
    /\ added' = Append(added, [word |-> from_str_safe(original), original |-> original])
    /\ found' = None
    /\ UNCHANGED << iter, results, visits, searched, anagVars, normVars, freqVars >>

\* dict.iter_search(DictSearch::anagram_of(q)).collect(); the query is built
\* first, and a panic in building it unwinds before any search.  One search
\* is followed at a time.
SearchAnagramOf(q) ==
    /\ searched = None
    /\ LET search == anagram_of(q)
       IN  searched' = Some([kind |-> "anagram_of", query |-> q,
                             outcome |-> IF search[1] = "Panicked" THEN search
                                         ELSE Returned(Dictionary_iter_search(trie, search[2]))])
    /\ UNCHANGED << trieVars, found, anagVars, normVars, freqVars >>

\* dict.iter_search(DictSearch::new(None, predicate)).collect(), the predicate
\* holding the AnagramNumber of q, which the caller could construct.
SearchPredicate(kind, q) ==
    /\ searched = None
    /\ IsOk(try_from(from_str_safe(q)))
    /\ LET predicate == << kind, try_from(from_str_safe(q))[2] >>
       IN  searched' = Some([kind |-> kind, query |-> q,
                             outcome |-> Returned(Dictionary_iter_search(
                                             trie, DictSearch_new(None, predicate)))])
    /\ UNCHANGED << trieVars, found, anagVars, normVars, freqVars >>

\* The collected result of the search is dropped.
DropSearch ==
    /\ searched # None
    /\ searched' = None
    /\ UNCHANGED << trieVars, found, anagVars, normVars, freqVars >>

NextSearch ==
    \/ \E original \in CorpusStrings : InsertCorpus(original)
    \/ \E q \in QueryStrings : SearchAnagramOf(q)
    \/ \E kind \in PredicateKinds, q \in QueryStrings : SearchPredicate(kind, q)
    \/ DropSearch

SpecSearch == Init /\ [][NextSearch]_vars

\* ------------------------------------------- the predicate state machine

\* A predicate as its caller writes it, with words where WordPredicate holds
\* anagram numbers: << kind, word >>, << "All", exprs >>, << "Any", exprs >>,
\* << "None" >>.
LeafExprs ==
    {<< kind, q >> : kind \in {"AnagramOf", "SubanagramOf", "SuperanagramOf"},
                     q \in {<< >>, << 97, 116 >>, << 116, 97, 98 >>}}
    \cup {<< "None" >>}

FlatExprs ==
    LeafExprs
    \cup {<< comb, ps >> : comb \in {"All", "Any"},
                           ps \in UNION {[1 .. n -> LeafExprs] : n \in 0 .. MaxPredicates}}

\* Trees one level deeper: a combinator over an empty combinator, over a
\* combinator of two leaves, and over such a combinator and a leaf.
NestedExprs ==
    {<< comb, << inner >> >> :
        comb \in {"All", "Any"},
        inner \in {<< "All", << >> >>, << "Any", << >> >>}}
    \cup {<< comb, << << inner, << l1, l2 >> >>, l3 >> >> :
             comb \in {"All", "Any"}, inner \in {"All", "Any"},
             l1 \in {<< "SubanagramOf", << 116, 97, 98 >> >>},
             l2 \in {<< "SuperanagramOf", << 97, 116 >> >>, << "AnagramOf", << 97, 116 >> >>},
             l3 \in {<< "AnagramOf", << 116, 97, 98 >> >>, << "None" >>}}

PredicateExprs == FlatExprs \cup NestedExprs

\* The WordPredicate of an expression, each word turned into its number as
\* the command interpreter does (from_str_safe, then try_from, unwrapped).
RECURSIVE ToPredicate(_)
ToPredicate(expr) ==
    IF expr[1] \in {"AnagramOf", "SubanagramOf", "SuperanagramOf"}
    THEN << expr[1], try_from(from_str_safe(expr[2]))[2] >>
    ELSE IF expr[1] \in {"All", "Any"}
    THEN << expr[1], [k \in 1 .. Len(expr[2]) |-> ToPredicate(expr[2][k])] >>
    ELSE PredicateNone

\* "cat", "bat", "bait", "at", "tab", "a", "" and twenty times 'Z'.
EntryStrings == CorpusStrings \cup {<< 97 >>, << >>}

\* The candidate a search of a dictionary holding only `original` hands to
\* the predicate.
CandidateOf(original) ==
    Dictionary_iter_search(insert(<< TrieEmpty >>, original),
                           DictSearch_new(None, PredicateNone))[1]

InitPred ==
    /\ TrieIdle
    /\ AnagIdle
    /\ FreqIdle
    /\ normText = None
    /\ text \in EntryStrings

\* predicate.matches(candidate) for the candidate of `text`.
MatchPredicate(expr) ==
    /\ searched = None
    /\ searched' = Some([expr |-> expr,
                         outcome |-> WordPredicate_matches(ToPredicate(expr),
                                                           CandidateOf(text))])
    /\ UNCHANGED << trieVars, found, anagVars, normVars, freqVars >>

NextPred == \E expr \in PredicateExprs : MatchPredicate(expr)

SpecPred == InitPred /\ [][NextPred]_vars

\* ------------------------------------------ the normalizer state machine

\* 'a', 'Z', e-acute, N-tilde, '1', ' ', '-', sharp s, the division sign, the
\* euro sign, and the four characters next to the ASCII letters: '@', '[',
\* '`', '{'.
TextChars == {97, 90, 233, 209, 49, 32, 45, 223, 247, 8364, 64, 91, 96, 123}

\* Every text of at most MaxTextLen of these characters, and every code point
\* up to MaxChar on its own.
TextStrings ==
    UNION {[1 .. n -> TextChars] : n \in 0 .. MaxTextLen}
    \cup {<< ch >> : ch \in 0 .. MaxChar}

InitNorm ==
    /\ TrieIdle
    /\ AnagIdle
    /\ FreqIdle
    /\ text \in TextStrings
    /\ normText = None

\* NormalizedWord::from_str_safe(text)
Normalize ==
    /\ normText = None
    /\ normText' = Some(from_str_safe(text))
    /\ UNCHANGED << trieVars, found, searched, anagVars, text, freqVars >>

NextNorm == Normalize

SpecNorm == InitNorm /\ [][NextNorm]_vars

\* ------------------------------------ the frequency-compare state machine

\* The counts tried: the small ones and the largest a u8 holds.
FreqValues == (0 .. MaxFreq) \cup {U8_MAX}

\* The letters whose counts vary: A, M and Z; every other count is 0.
FreqLetters == {0, 12, 25}

\* CharFreq::new(freqs)
FreqVectors ==
    {[i \in 0 .. 25 |-> IF i \in FreqLetters THEN f[i] ELSE 0] :
        f \in [FreqLetters -> FreqValues]}

InitCompare ==
    /\ TrieIdle
    /\ AnagIdle
    /\ NormIdle
    /\ fa \in FreqVectors
    /\ fb \in FreqVectors
    /\ fcmp = None
    /\ freq = None

\* fa.compare(&fb)
CompareFreq ==
    /\ fcmp = None
    /\ fcmp' = Some(CharFreqCompare(fa, fb))
    /\ UNCHANGED << trieVars, found, searched, anagVars, normVars, fa, fb, freq >>

NextCompare == CompareFreq

SpecCompare == InitCompare /\ [][NextCompare]_vars

\* --------------------------------------- the pattern-parsing state machine

\* What a call that builds a value holding a prefix gives back: the value,
\* or the panic of expect("Unknown search char") in From<char> for CharMatch
\* when a character of the pattern made it unwind.
PrefixCall(prefix, value) ==
    IF NoPanic(prefix) THEN Returned(value) ELSE Panicked("Unknown search char")

\* TriePrefix::from_pattern(str), as a call
TriePrefix_from_pattern(str) == PrefixCall(from_pattern(str), from_pattern(str))

\* TrieSearch::from_prefix(str), as a call
TrieSearch_from_prefix(str) == PrefixCall(from_pattern(str), from_prefix(str))

\* DictSearch::from_pattern(str), as a call
DictSearch_from_pattern_call(str) ==
    PrefixCall(from_pattern(str), DictSearch_from_pattern(str))

\* '?', '.', ' ', '*', '1', '-', 'a', 'Z' and e-acute
PatternChars == {63, 46, 32, 42, 49, 45, 97, 90, 233}

\* Every text of at most MaxTextLen of these characters, and every code point
\* up to MaxChar on its own.
PatternStrings ==
    UNION {[1 .. n -> PatternChars] : n \in 0 .. MaxTextLen}
    \cup {<< ch >> : ch \in 0 .. MaxChar}

InitPattern ==
    /\ TrieIdle
    /\ AnagIdle
    /\ FreqIdle
    /\ text \in PatternStrings
    /\ normText = None

\* TriePrefix::from_pattern(text)
ParseTriePrefix ==
    /\ searched = None
    /\ searched' = Some([call |-> "TriePrefix::from_pattern",
                         outcome |-> TriePrefix_from_pattern(text)])
    /\ UNCHANGED << trieVars, found, anagVars, normVars, freqVars >>

\* TrieSearch::from_prefix(text)
ParseTrieSearch ==
    /\ searched = None
    /\ searched' = Some([call |-> "TrieSearch::from_prefix",
                         outcome |-> TrieSearch_from_prefix(text)])
    /\ UNCHANGED << trieVars, found, anagVars, normVars, freqVars >>

\* DictSearch::from_pattern(text)
ParseDictSearch ==
    /\ searched = None
    /\ searched' = Some([call |-> "DictSearch::from_pattern",
                         outcome |-> DictSearch_from_pattern_call(text)])
    /\ UNCHANGED << trieVars, found, anagVars, normVars, freqVars >>

NextPattern ==
    \/ Normalize
    \/ ParseTriePrefix
    \/ ParseTrieSearch
    \/ ParseDictSearch

SpecPattern == InitPattern /\ [][NextPattern]_vars

\* -------------------------------------- the frequency-vector state machine

\* 'A', 'T', 'a' and '-'
FreqChars == {65, 84, 97, 45}

\* Every &AsciiStr of at most MaxTextLen of these characters, and runs of
\* MaxRun - 1 and of MaxRun times 'A', the longer one also followed by 'T'.
FreqWords ==
    UNION {[1 .. n -> FreqChars] : n \in 0 .. MaxTextLen}
    \cup { [i \in 1 .. MaxRun - 1 |-> 65],
           [i \in 1 .. MaxRun |-> 65],
           [i \in 1 .. MaxRun + 1 |-> IF i <= MaxRun THEN 65 ELSE 84] }

InitFreq ==
    /\ TrieIdle
    /\ AnagIdle
    /\ normText = None
    /\ text \in FreqWords
    /\ fa = CharFreqNewEmpty
    /\ fb = CharFreqNewEmpty
    /\ fcmp = None
    /\ freq = None

\* CharFreq::from(text), in a build with or without overflow checks.
BuildFreq(overflow_checks) ==
    /\ freq = None
    /\ freq' = Some([overflow_checks |-> overflow_checks,
                     outcome |-> CharFreqFromIn(text, overflow_checks)])
    /\ UNCHANGED << trieVars, found, searched, anagVars, normVars, fa, fb, fcmp >>

NextFreq == \E overflow_checks \in BOOLEAN : BuildFreq(overflow_checks)

SpecFreq == InitFreq /\ [][NextFreq]_vars

\* --------------------------------------- the anagram-number state machine

Repeat(ch, n) == [i \in 1 .. n |-> ch]

\* Every spelling over {A, C, T} of at most MaxWordLen letters, every single
\* letter, and "CAT", "ACT", "BAT", "ANNA", "BANANA", 19 and 20 times 'Z'
\* (prime 101), 19 times 'Z' followed by 'E' (prime 2) or by 'T' (prime 3),
\* and the same letters with the 'E' or the 'T' first or the 'T' in the middle.
AnagStrings ==
    UNION {[1 .. n -> {65, 67, 84}] : n \in 0 .. MaxWordLen}
    \cup {<< ch >> : ch \in 65 .. 90}
    \cup { << 67, 65, 84 >>, << 65, 67, 84 >>, << 66, 65, 84 >>,
           << 65, 78, 78, 65 >>, << 66, 65, 78, 65, 78, 65 >>,
           Repeat(90, 19), Repeat(90, 20),
           Append(Repeat(90, 19), 69), Append(Repeat(90, 19), 84),
           << 69 >> \o Repeat(90, 19), << 84 >> \o Repeat(90, 19),
           Repeat(90, 9) \o << 84 >> \o Repeat(90, 10) }

InitAnag ==
    /\ TrieIdle
    /\ NormIdle
    /\ FreqIdle
    /\ w1 \in AnagStrings
    /\ w2 \in AnagStrings
    /\ num1 = None
    /\ num2 = None
    /\ cmp = None

\* AnagramNumber::try_from(&NormalizedWord::from_str_safe(w1))
TryFrom1 ==
    /\ num1 = None
    /\ num1' = Some(try_from(from_str_safe(w1)))
    /\ UNCHANGED << trieVars, found, searched, normVars, freqVars, w1, w2, num2, cmp >>

TryFrom2 ==
    /\ num2 = None
    /\ num2' = Some(try_from(from_str_safe(w2)))
    /\ UNCHANGED << trieVars, found, searched, normVars, freqVars, w1, w2, num1, cmp >>

\* a.compare(b) on the two numbers, and CharFreq::from(w1).compare(&CharFreq::from(w2)).
Compare ==
    /\ cmp = None
    /\ num1 # None /\ IsOk(num1[1])
    /\ num2 # None /\ IsOk(num2[1])
    /\ cmp' = Some([anagram |-> AnagramCompare(num1[1][2], num2[1][2]),
                    freq1 |-> CharFreqFrom(w1),
                    freq2 |-> CharFreqFrom(w2),
                    charfreq |-> CharFreqCompare(CharFreqFrom(w1), CharFreqFrom(w2))])
    /\ UNCHANGED << trieVars, found, searched, normVars, freqVars, w1, w2, num1, num2 >>

NextAnag == TryFrom1 \/ TryFrom2 \/ Compare

SpecAnag == InitAnag /\ [][NextAnag]_vars


\* ------------------------------------------- vocabulary of the properties

\* The (word, payload) pairs the next() calls have returned so far.
Yielded ==
    LET somes == SelectSeq(results, LAMBDA r : r # None)
    IN  [i \in 1 .. Len(somes) |-> somes[i][1]]

YieldedWords == [i \in 1 .. Len(Yielded) |-> Yielded[i].word]

AddedWords == {added[i].word : i \in 1 .. Len(added)}

Count(seq, x) == Cardinality({i \in 1 .. Len(seq) : seq[i] = x})

IsPrefixSeq(s, t) == Len(s) <= Len(t) /\ s = SubSeq(t, 1, Len(s))

IsProperPrefix(u, v) == Len(u) < Len(v) /\ u = SubSeq(v, 1, Len(u))

RECURSIVE SortedWords(_)
SortedWords(S) ==
    IF S = {} THEN << >>
    ELSE LET least == CHOOSE w \in S : \A v \in S \ {w} : WordLess(w, v)
         IN  << least >> \o SortedWords(S \ {least})

RECURSIVE GroupByWord(_, _)
GroupByWord(seq, ws) ==
    IF Len(ws) = 0 THEN << >>
    ELSE SelectSeq(seq, LAMBDA e : e.word = ws[1]) \o GroupByWord(seq, Tail(ws))

\* The add calls ordered by ascending spelling, calls of one spelling in call order.
InSpellingOrder(seq) ==
    GroupByWord(seq, SortedWords({seq[i].word : i \in 1 .. Len(seq)}))

\* Whether a word satisfies a descriptor (pattern P, optional maximum depth M).
Qualifies(search, word) ==
    /\ Len(word) >= Len(search.prefix)
    /\ search.max_depth # None => Len(word) <= search.max_depth[1]
    /\ \A i \in 1 .. Len(search.prefix) :
           \/ search.prefix[i] = << "Any" >>
           \/ search.prefix[i] = << "Only", word[i] >>

WordC == << 2 >>
WordCAR == << 2, 0, 17 >>
WordBAT == << 1, 0, 19 >>
WordCOT == << 2, 14, 19 >>

\* ------------------------------------------------------------------- C1

\* C1: an unconstrained enumeration (Trie::iter) returns the inserted
\* (word, payload) pairs in ascending order of spelling, a word before its
\* extensions, payloads of one spelling in insertion order; when it is
\* exhausted it has returned every pair exactly once, as many items as there
\* were add calls.
C1_IterYieldsAllInOrder ==
    (iter # None /\ iter[1].search = TrieSearchDefault) =>
        /\ IsPrefixSeq(Yielded, InSpellingOrder(added))
        /\ Exhausted => /\ Yielded = InSpellingOrder(added)
                        /\ Len(Yielded) = Len(added)

C1_Witness ==
    /\ iter # None
    /\ iter[1].search = TrieSearchDefault
    /\ Exhausted
    /\ Len(Yielded) = 3
    /\ \E i, j \in 1 .. Len(added) :
           i < j /\ added[i].word = added[j].word /\ added[i].value # added[j].value
    /\ \E i, j \in 1 .. Len(added) : IsProperPrefix(added[j].word, added[i].word)

\* ------------------------------------------------------------------- C2

\* C2: a search returns only stored pairs whose word satisfies the descriptor
\* (at least as long as the pattern, no longer than the maximum depth when there
\* is one, every pattern position satisfied), and when it is exhausted it has
\* returned each such pair exactly as often as it was inserted.
C2_SearchYieldsExactlyQualifying ==
    iter # None =>
        LET search == iter[1].search
            qualifying == SelectSeq(added, LAMBDA e : Qualifies(search, e.word))
        IN  /\ \A i \in 1 .. Len(Yielded) :
                   /\ Qualifies(search, Yielded[i].word)
                   /\ Count(Yielded, Yielded[i]) <= Count(qualifying, Yielded[i])
            /\ Exhausted =>
                   \A i \in 1 .. Len(qualifying) :
                       Count(Yielded, qualifying[i]) = Count(qualifying, qualifying[i])

C2_Witness ==
    /\ iter # None
    /\ Exhausted
    /\ Len(iter[1].search.prefix) = 2
    /\ iter[1].search.prefix[1] # << "Any" >>
    /\ iter[1].search.max_depth # None
    /\ Len(Yielded) >= 1
    /\ \E i \in 1 .. Len(added) : Len(added[i].word) < 2
    /\ \E i \in 1 .. Len(added) :
           Len(added[i].word) = 3 /\ ~Qualifies(iter[1].search, added[i].word)

\* ------------------------------------------------------------------- C3

OnlyCAndCAR == Len(added) = 2 /\ AddedWords = {WordC, WordCAR}

\* "CA"
PatternCA == << 67, 65 >>

\* C3 as stated: with "C" and "CAR" inserted, TrieSearch::exactly("CA")
\* (pattern "CA", maximum depth 2) yields only "CAR".
C3_ExactlyCAYieldsCAR ==
    (iter # None /\ OnlyCAndCAR /\ iter[1].search = exactly(PatternCA) /\ Exhausted)
        => YieldedWords = << WordCAR >>

\* C3 amended: with "C" and "CAR" inserted, the pattern "CA" yields only "CAR"
\* (never "C") when there is no maximum depth (TrieSearch::from_prefix) or the
\* maximum depth is at least 3, and yields nothing when the maximum depth is 2
\* (TrieSearch::exactly("CA")) or less.
C3_PrefixCAYieldsCAR ==
    (iter # None /\ OnlyCAndCAR /\ iter[1].search.prefix = from_pattern(PatternCA)
     /\ Exhausted)
        => /\ exactly(PatternCA) = TrieSearchNew(<< Only(2), Only(0) >>, Some(2))
           /\ IF iter[1].search.max_depth = None \/ iter[1].search.max_depth[1] >= 3
              THEN YieldedWords = << WordCAR >>
              ELSE YieldedWords = << >>

C3_Witness ==
    /\ iter # None
    /\ OnlyCAndCAR
    /\ iter[1].search = from_prefix(PatternCA)
    /\ Exhausted
    /\ YieldedWords = << WordCAR >>

\* ------------------------------------------------------------------- C4

IsWildcardChar(ch) == ch = 63 \/ ch = 46 \/ ch = 32

\* The letter a pattern character spells, whatever its case.
LetterOf(ch) == IF ch >= 97 THEN ch - 97 ELSE ch - 65

\* Two pattern strings that differ only in the wildcard used and in letter case.
SameShape(p, q) ==
    /\ Len(p) = Len(q)
    /\ \A i \in 1 .. Len(p) :
           IF IsWildcardChar(p[i]) THEN IsWildcardChar(q[i])
           ELSE ~IsWildcardChar(q[i]) /\ LetterOf(p[i]) = LetterOf(q[i])

\* "?A"
PatternAnyA == << 63, 65 >>

OnlyBatCarCot == Len(added) = 3 /\ AddedWords = {WordBAT, WordCAR, WordCOT}

\* C4: a pattern gives one constraint per character, 'any' for '?', '.' and
\* ' ', the exact letter for a letter of either case; patterns that differ only
\* in wildcard character or case give equal descriptors; and "?A" over
\* {BAT, CAR, COT} yields BAT then CAR and not COT.
C4_PatternWildcardsAndCase ==
    /\ LET prefixOf == [p \in Patterns |-> from_pattern(p)]
           fromPrefixOf == [p \in Patterns |-> from_prefix(p)]
           exactlyOf == [p \in Patterns |-> exactly(p)]
       IN  /\ \A p \in Patterns :
                  /\ Len(prefixOf[p]) = Len(p)
                  /\ \A i \in 1 .. Len(p) :
                         prefixOf[p][i] =
                             IF IsWildcardChar(p[i]) THEN << "Any" >>
                             ELSE << "Only", LetterOf(p[i]) >>
           /\ \A p, q \in Patterns :
                  SameShape(p, q) =>
                      /\ fromPrefixOf[p] = fromPrefixOf[q]
                      /\ exactlyOf[p] = exactlyOf[q]
    /\ (iter # None /\ OnlyBatCarCot /\ Exhausted
        /\ \E p \in Patterns : SameShape(p, PatternAnyA) /\ iter[1].search = from_prefix(p))
           => YieldedWords = << WordBAT, WordCAR >>

C4_Witness ==
    /\ iter # None
    /\ OnlyBatCarCot
    /\ iter[1].search = from_prefix(<< 46, 97 >>)
    /\ iter[1].search = from_prefix(<< 32, 65 >>)
    /\ iter[1].search = from_prefix(PatternAnyA)
    /\ Exhausted
    /\ YieldedWords = << WordBAT, WordCAR >>

\* ------------------------------------------------------------------- C9

ValuesAt(seq, word) ==
    LET sel == SelectSeq(seq, LAMBDA e : e.word = word)
    IN  [i \in 1 .. Len(sel) |-> sel[i].value]

C9_Step ==
    added' # added =>
        LET e == added'[Len(added')]
            before == get(trie, e.word)
            prior == IF before = None THEN << >> ELSE before[1]
        IN  get(trie', e.word) = Some(Append(prior, e.value))

C9_Payloads ==
    \A w \in AddedWords : get(trie, w) = Some(ValuesAt(added, w))

\* C9: Trie::add appends and never deduplicates: after add(w, v), get(w) is
\* the list it was before the call (empty if absent) followed by v, so a
\* spelling inserted n times holds its n payloads in insertion order, equal
\* payloads included.
C9_AddAppends == [][C9_Step]_vars /\ []C9_Payloads

C9_Witness ==
    \E i, j \in 1 .. Len(added) :
        /\ i < j
        /\ added[i] = added[j]
        /\ get(trie, added[i].word) # None
        /\ Count(get(trie, added[i].word)[1], added[i].value) >= 2

\* ------------------------------------------------------------------- C5

\* C5: for two words whose Anagram Numbers were constructed, compare returns
\* Exact if and only if the two words have equal letter-frequency vectors.
C5_ExactIffSameFrequencies ==
    cmp # None =>
        ((cmp[1].anagram = "Exact") <=> (cmp[1].freq1 = cmp[1].freq2))

C5_Witness ==
    /\ cmp # None
    /\ cmp[1].anagram = "Exact"
    /\ w1 # w2
    /\ Len(w1) = 3

\* ------------------------------------------------------------------- C6

\* C6 as stated: the Anagram Number comparison says Subset exactly when the
\* frequency-vector comparison says Subset, and Superset exactly when it says
\* Superset.
C6_SameLabels ==
    cmp # None =>
        /\ (cmp[1].anagram = "Subset") <=> (cmp[1].charfreq[1] = "Subset")
        /\ (cmp[1].anagram = "Superset") <=> (cmp[1].charfreq[1] = "Superset")

\* C6 amended: the two comparisons name the relation from opposite sides:
\* AnagramNumber(w1).compare(AnagramNumber(w2)) is Superset exactly when
\* CharFreq(w1).compare(&CharFreq(w2)) is Subset (w1's letters are strictly
\* contained in w2's), and Subset exactly when the other is Superset.
C6_OppositeLabels ==
    cmp # None =>
        /\ (cmp[1].anagram = "Superset") <=> (cmp[1].charfreq[1] = "Subset")
        /\ (cmp[1].anagram = "Subset") <=> (cmp[1].charfreq[1] = "Superset")

\* "AT" against "CAT"
C6_Witness ==
    /\ cmp # None
    /\ w1 = << 65, 84 >>
    /\ w2 = << 67, 65, 84 >>
    /\ cmp[1].anagram = "Superset"
    /\ cmp[1].charfreq[1] = "Subset"

\* ------------------------------------------------------------------- C7

\* The product as a natural number of any size: limbs of 16 bits, least
\* significant first, no leading zero limb.
BigMulSmall(n, p) ==
    LET full == MulLimbs(n, p, 1, 0)
    IN  IF full[Len(full)] = 0 THEN SubSeq(full, 1, Len(n)) ELSE full

RECURSIVE ExactProductWalk(_, _, _)
ExactProductWalk(word, i, n) ==
    IF i > Len(word) THEN n
    ELSE ExactProductWalk(word, i + 1, BigMulSmall(n, PRIMES_MAP[word[i] + 1]))

ExactProduct(word) == ExactProductWalk(word, 1, << 1 >>)

PadToU128(n) == [i \in 1 .. LimbCount |-> IF i <= Len(n) THEN n[i] ELSE 0]

\* 120810895044353150938886048668570711901 = 101^19, in limbs
Z19Number == << 30557, 14085, 8706, 11228, 37678, 26475, 21760, 23267 >>

ExactOrOverflow(w, r) ==
    LET exact == ExactProduct(from_str_safe(w))
    IN  /\ IF Len(exact) <= LimbCount
           THEN IsOk(r) /\ r[2] = PadToU128(exact)
           ELSE ~IsOk(r) /\ r[2] = AnagramNumberOverflow
        /\ w = Repeat(90, 19) => IsOk(r) /\ r[2] = Z19Number
        /\ w = Repeat(90, 20) => ~IsOk(r)

\* C7: construction returns the exact product of the letters' primes when it
\* fits 128 bits and AnagramNumberOverflow otherwise, never a wrapped value;
\* 19 times 'Z' succeeds and 20 times 'Z' overflows.
C7_TryFromExactOrOverflow ==
    /\ num1 # None => ExactOrOverflow(w1, num1[1])
    /\ num2 # None => ExactOrOverflow(w2, num2[1])

C7_Witness ==
    /\ num1 # None
    /\ num2 # None
    /\ w1 = Repeat(90, 19)
    /\ IsOk(num1[1])
    /\ w2 = Repeat(90, 20)
    /\ ~IsOk(num2[1])

\* ------------------------------------------------------------------- C8

CaseFold(ch) == IF ch >= 97 /\ ch <= 122 THEN ch - 32 ELSE ch

SameUpToCase(s, t) ==
    Len(s) = Len(t) /\ \A i \in 1 .. Len(s) : CaseFold(s[i]) = CaseFold(t[i])

StrTEST == << 84, 69, 83, 84 >>
WordTEST == << 19, 4, 18, 19 >>

\* C8: after Dictionary::insert(s), find(normalize(t)) returns a non-empty
\* list holding the entry whose original spelling is s, for every t that
\* differs from s only in letter case or has the same normalized word; with
\* "TEST" inserted, "test", "TEST" and "Test" are all answered with the list
\* stored at TEST.
C8_InsertThenFindIgnoresCase ==
    found # None =>
        LET str == found[1].str
            result == found[1].result
        IN  /\ \A i \in 1 .. Len(added) :
                   (\/ SameUpToCase(added[i].original, str)
                    \/ from_str_safe(added[i].original) = from_str_safe(str))
                   => /\ result # None
                      /\ \E k \in 1 .. Len(result[1]) :
                             result[1][k].original = added[i].original
            /\ (SameUpToCase(str, StrTEST)
                /\ \E i \in 1 .. Len(added) : added[i].original = StrTEST)
                   => /\ result # None
                      /\ Len(result[1]) > 0
                      /\ result = find(trie, WordTEST)

\* "TEST" inserted, "test" looked up
C8_Witness ==
    /\ found # None
    /\ found[1].str = << 116, 101, 115, 116 >>
    /\ \E i \in 1 .. Len(added) : added[i].original = StrTEST
    /\ found[1].result # None
    /\ \E k \in 1 .. Len(found[1].result[1]) : found[1].result[1][k].original = StrTEST

\* ------------------------------------------------------------------ C11

QueuesEmpty(it) == Len(it.terminal_queue) = 0 /\ Len(it.node_queue) = 0

\* What the next call on the live traversal would return, and the traversal
\* as the returning invocation finds it.
C11_NoneExactlyWhenEmpty ==
    iter # None =>
        LET r == TrieIter_next(iter[1], trie)
            final == NextFinal(iter[1], trie)
        IN  /\ r.item = None <=> QueuesEmpty(final)
            /\ r.item = None => QueuesEmpty(r.iter)
            /\ QueuesEmpty(iter[1]) => r.item = None
            /\ Exhausted => QueuesEmpty(iter[1])

C11_VisitedAtMostOnce ==
    \A i, j \in 1 .. Len(visits) : visits[i].node = visits[j].node => i = j

C11_PushedOneLetterLonger ==
    \A i \in 1 .. Len(visits) : \A k \in 1 .. Len(visits[i].pushed) :
        LET w == visits[i].pushed[k].word
        IN  /\ Len(w) = Len(visits[i].word) + 1
            /\ SubSeq(w, 1, Len(visits[i].word)) = visits[i].word

C11_NoneIsFinal ==
    \A i, j \in 1 .. Len(results) : i < j /\ results[i] = None => results[j] = None

\* No traversal returns more items than add was called: among any
\* Len(added) + 1 calls of next() one returns None.
C11_BoundedCalls == Len(results) > Len(added) => NoneCount >= 1

C11_Safety ==
    /\ C11_NoneExactlyWhenEmpty
    /\ C11_BoundedCalls
    /\ C11_VisitedAtMostOnce
    /\ C11_PushedOneLetterLonger
    /\ C11_NoneIsFinal

\* C11: every search terminates: a traversal whose next() keeps being called
\* eventually returns None; the invocation of next() that returns gives None
\* exactly when it finds both the node worklist and the terminal queue empty;
\* no node is visited twice; every word pushed on the worklist is the visited
\* word plus one letter; and after a None every later next() is None.
C11_SearchTerminates == []C11_Safety /\ [](iter # None => <>Exhausted)

\* A traversal that visited at least three nodes, returned an item, then None,
\* and was called again after that.
C11_Witness ==
    /\ iter # None
    /\ Len(visits) >= 3
    /\ Len(Yielded) >= 1
    /\ NoneCount >= 2
    /\ \E i \in 1 .. Len(visits) : Len(visits[i].pushed) >= 2

\* ------------------------------------------------------------------ C12

SameLetters(u, v) == \A c \in NormalizedChar : Count(u, c) = Count(v, c)

\* The (normalized word, original) pairs of the items a search gave.
FoundPairs(items) ==
    [k \in 1 .. Len(items) |->
        [word |-> items[k].normalized, original |-> items[k].original]]

StrCat == << 99, 97, 116 >>
StrBat == << 98, 97, 116 >>
StrBait == << 98, 97, 105, 116 >>
StrAt == << 97, 116 >>
StrTab == << 116, 97, 98 >>
StrZ20 == [i \in 1 .. 20 |-> 90]

\* The dictionary holds exactly "cat", "bat", "bait", "at", one entry each.
CorpusCatBatBaitAt ==
    /\ Len(added) = 4
    /\ {added[i].original : i \in 1 .. Len(added)} = {StrCat, StrBat, StrBait, StrAt}

\* C12: a search built by DictSearch::anagram_of(q) gives exactly the inserted
\* entries whose normalized word has the letters of q, each as many times, in
\* ascending order of normalized spelling (entries of one spelling in insertion
\* order); over the corpus cat, bat, bait, at the query "tab" gives ["bat"].
C12_AnagramSearchExact ==
    (searched # None /\ searched[1].kind = "anagram_of"
                     /\ searched[1].outcome[1] = "Returned") =>
        LET q == from_str_safe(searched[1].query)
            items == searched[1].outcome[2]
        IN  /\ FoundPairs(items)
                 = InSpellingOrder(SelectSeq(added, LAMBDA e : SameLetters(e.word, q)))
            /\ \A k \in 1 .. Len(items) : Len(items[k].normalized) = Len(q)
            /\ (CorpusCatBatBaitAt /\ searched[1].query = StrTab) =>
                   [k \in 1 .. Len(items) |-> items[k].original] = << StrBat >>

\* "anagram of tab" was asked of the corpus cat, bat, bait, at and gave one entry.
C12_Witness ==
    /\ CorpusCatBatBaitAt
    /\ searched # None
    /\ searched[1].kind = "anagram_of"
    /\ searched[1].query = StrTab
    /\ searched[1].outcome[1] = "Returned"
    /\ Len(searched[1].outcome[2]) = 1

\* ------------------------------------------------------------------ C13

\* The base letter of a lower-case Latin-1 letter with a diacritic.
LowerAccentBase(ch) ==
    IF ch \in 224 .. 229 THEN Some(0)
    ELSE IF ch = 231 THEN Some(2)
    ELSE IF ch \in 232 .. 235 THEN Some(4)
    ELSE IF ch \in 236 .. 239 THEN Some(8)
    ELSE IF ch = 241 THEN Some(13)
    ELSE IF ch \in 242 .. 246 THEN Some(14)
    ELSE IF ch \in 249 .. 252 THEN Some(20)
    ELSE IF ch = 253 THEN Some(24)
    ELSE None

\* The canonical letter a character stands for, if any: an ASCII letter of
\* either case, or one of the accented letters, lower case or upper case (32
\* below the lower-case one).
LetterFor(ch) ==
    IF ch \in 65 .. 90 THEN Some(ch - 65)
    ELSE IF ch \in 97 .. 122 THEN Some(ch - 97)
    ELSE IF LowerAccentBase(ch) # None THEN LowerAccentBase(ch)
    ELSE LowerAccentBase(ch + 32)

\* C13: from_str_safe(s) is, in input order, the canonical letters of the
\* characters of s that stand for a letter; every other character is dropped,
\* so the length of the result is the number of characters that map.
C13_NormalizationFilters ==
    normText # None =>
        LET kept == SelectSeq(text, LAMBDA ch : LetterFor(ch) # None)
        IN  /\ normText[1] = [i \in 1 .. Len(kept) |-> LetterFor(kept[i])[1]]
            /\ Len(normText[1])
                 = Cardinality({i \in 1 .. Len(text) : LetterFor(text[i]) # None})
            /\ \A i \in 1 .. Len(normText[1]) : normText[1][i] \in NormalizedChar

\* "a1" followed by N-tilde was normalized to A, N.
C13_Witness ==
    /\ text = << 97, 49, 209 >>
    /\ normText = Some(<< 0, 13 >>)

\* ------------------------------------------------------------------ C14

Letters == 0 .. 25

\* C14: a.compare(&b) is Same iff a = b; Subset iff no count of a exceeds b's
\* and one is lower; Superset iff no count of a is below b's and one is
\* higher; Unrelated iff one is lower and one is higher; and the diff of a
\* Subset or Superset holds |a[i] - b[i]| for every letter i.
C14_CompareClassifies ==
    fcmp # None =>
        LET r == fcmp[1]
            lower == \E i \in Letters : fa[i] < fb[i]
            higher == \E i \in Letters : fa[i] > fb[i]
        IN  /\ r[1] \in {"Same", "Subset", "Superset", "Unrelated"}
            /\ r[1] = "Same" <=> fa = fb
            /\ r[1] = "Subset" <=> (lower /\ ~higher)
            /\ r[1] = "Superset" <=> (higher /\ ~lower)
            /\ r[1] = "Unrelated" <=> (lower /\ higher)
            /\ r[1] \in {"Subset", "Superset"} =>
                   \A i \in Letters :
                       r[2][i] = (IF fa[i] < fb[i] THEN fb[i] - fa[i] ELSE fa[i] - fb[i])

\* A Subset with a difference of 255 at one letter and of 1 at another.
C14_Witness ==
    /\ fcmp # None
    /\ fcmp[1][1] = "Subset"
    /\ fcmp[1][2][0] = U8_MAX
    /\ fcmp[1][2][25] = 1
    /\ fa[12] = fb[12]

\* ------------------------------------------------------------------ C15

\* The node of a word exists: the root, or a node created by an add of the
\* word or of an extension of it.
NodeExists(w) ==
    \/ Len(w) = 0
    \/ \E i \in 1 .. Len(added) : IsPrefixSeq(w, added[i].word)

\* The node of a letter sequence other than the root's exists.
PathNodesExist(w) == \E i \in 1 .. Len(added) : IsPrefixSeq(w, added[i].word)

\* C15 as stated: a lookup is absent when the path of the word is empty or a
\* node on it does not exist, and present only when the node of the word
\* exists.
C15_EmptyPathIsAbsent ==
    found # None =>
        LET w == from_str_safe(found[1].str)
            result == found[1].result
        IN  /\ (Len(w) = 0 \/ ~PathNodesExist(w)) => result = None
            /\ result # None => NodeExists(w)

\* C15: a lookup is absent exactly when a node on the path of the word does
\* not exist; the empty word has the root for its node, so its lookup is
\* always present; a present lookup is the list stored at the node, empty for
\* a word that is only a proper prefix of inserted words.
C15_AbsentIffNoNode ==
    found # None =>
        LET w == from_str_safe(found[1].str)
            result == found[1].result
            stored == SelectSeq(added, LAMBDA e : e.word = w)
        IN  /\ result = None <=> ~NodeExists(w)
            /\ Len(w) = 0 => result # None
            /\ result # None =>
                   [k \in 1 .. Len(result[1]) |-> result[1][k].original]
                     = [k \in 1 .. Len(stored) |-> stored[k].original]
            /\ (NodeExists(w) /\ Len(stored) = 0) => result = Some(<< >>)

\* "te" looked up with "TEST" inserted and "te" not: present and empty.
C15_Witness ==
    /\ found # None
    /\ found[1].str = << 116, 101 >>
    /\ found[1].result = Some(<< >>)
    /\ \E i \in 1 .. Len(added) : added[i].original = StrTEST
    /\ \A i \in 1 .. Len(added) : added[i].word # << 19, 4 >>

\* ------------------------------------------------------------------ C16

\* C16 as stated: an entry whose Anagram Number is absent is matched by no
\* anagram predicate (AnagramOf, SubanagramOf, SuperanagramOf), so no
\* anagram-relation search gives it.
C16_OverflowEntryNeverMatches ==
    (searched # None /\ searched[1].outcome[1] = "Returned") =>
        \A k \in 1 .. Len(searched[1].outcome[2]) :
            /\ searched[1].outcome[2][k].anag_num # None
            /\ \A kind \in PredicateKinds :
                   (searched[1].outcome[2][k].anag_num = None) =>
                       ~WordPredicate_matches(<< kind, U128One >>,
                                              searched[1].outcome[2][k])

\* ------------------------------------------------------------------ C17

\* Every entry stored for a word whose number overflows has no Anagram Number.
OverflowStoredAsAbsent ==
    \A i \in 1 .. Len(added) :
        ~IsOk(try_from(added[i].word)) =>
            LET stored == get(trie, added[i].word)
            IN  /\ stored # None
                /\ \E k \in 1 .. Len(stored[1]) :
                       /\ stored[1][k].original = added[i].original
                       /\ stored[1][k].anag_num = None

\* C17 as stated: overflow is reported as a value and never aborts: insert
\* stores an overflowing word with an absent Anagram Number, and building an
\* anagram query for an overflowing operand does not panic.
C17_OverflowNeverPanics ==
    /\ OverflowStoredAsAbsent
    /\ searched # None => searched[1].outcome[1] # "Panicked"

\* ------------------------------------------------------------------ C18

\* Every letter occurs in v at least as often as in u.
Contains(v, u) == \A c \in NormalizedChar : Count(u, c) <= Count(v, c)

\* C18: for words whose numbers a, b were constructed, a.compare(b) is
\* Superset iff a < b and b mod a = 0, iff the letters of w2 strictly contain
\* those of w1; Subset iff a > b and a mod b = 0, iff the letters of w1
\* strictly contain those of w2; Unrelated iff neither contains the other;
\* no constructed number is zero (the empty word gives 1), so the remainder
\* never divides by zero.
C18_CompareIsStrictContainment ==
    /\ (num1 # None /\ IsOk(num1[1])) =>
           /\ num1[1][2] # U128Zero
           /\ Len(from_str_safe(w1)) = 0 => num1[1][2] = U128One
    /\ (num2 # None /\ IsOk(num2[1])) => num2[1][2] # U128Zero
    /\ cmp # None =>
           LET u == from_str_safe(w1)
               v == from_str_safe(w2)
               a == num1[1][2]
               b == num2[1][2]
               r == cmp[1].anagram
           IN  /\ r \in {"Exact", "Superset", "Subset", "Unrelated"}
               /\ r = "Superset" <=> (U128Less(a, b) /\ U128Rem(b, a) = U128Zero)
               /\ r = "Superset" <=> (Contains(v, u) /\ ~Contains(u, v))
               /\ r = "Subset" <=> (U128Less(b, a) /\ U128Rem(a, b) = U128Zero)
               /\ r = "Subset" <=> (Contains(u, v) /\ ~Contains(v, u))
               /\ r = "Unrelated" <=> (~Contains(u, v) /\ ~Contains(v, u))

\* Nineteen 'Z' compared with nineteen 'Z' and an 'E': Superset, on numbers
\* that need more than one limb.
C18_Witness ==
    /\ cmp # None
    /\ w1 = Repeat(90, 19)
    /\ w2 = Append(Repeat(90, 19), 69)
    /\ cmp[1].anagram = "Superset"

\* ------------------------------------------------------------------ C19

RECURSIVE SumCounts(_, _)
SumCounts(f, c) == IF c > 25 THEN 0 ELSE f[c] + SumCounts(f, c + 1)

\* The letter a character of a word is, in either case.
IsLetterOfWord(ch, c) == ch = 65 + c \/ ch = 97 + c

AllLetters(word) ==
    \A i \in 1 .. Len(word) : \E c \in Letters : IsLetterOfWord(word[i], c)

\* C19 as stated: the vector built from a word holds, for each letter, the
\* number of its occurrences in the word, lower case included and whatever
\* the number; so for a word of letters the counts sum to its length.
C19_CountsAreOccurrences ==
    freq # None =>
        /\ freq[1].outcome[1] = "Returned"
        /\ \A c \in Letters :
               freq[1].outcome[2][c]
                 = Cardinality({i \in 1 .. Len(text) : IsLetterOfWord(text[i], c)})
        /\ AllLetters(text) => SumCounts(freq[1].outcome[2], 0) = Len(text)

\* ------------------------------------------------------------------ C20

\* The number of paths of exactly k letters that lead from the root to node n.
RECURSIVE NumPaths(_, _, _)
NumPaths(t, n, k) ==
    IF k = 0 THEN (IF n = RootId THEN 1 ELSE 0)
    ELSE LET links == {pc \in (1 .. Len(t)) \X NormalizedChar :
                          t[pc[1]].children[pc[2]] = n}
             RECURSIVE SumOver(_)
             SumOver(S) ==
                 IF S = {} THEN 0
                 ELSE LET pc == CHOOSE x \in S : TRUE
                      IN  NumPaths(t, pc[1], k - 1) + SumOver(S \ {pc})
         IN  SumOver(links)

\* The number of paths of at most Len(t) letters from the root to node n; a
\* node on a cycle or with two parents has more than one, a detached node none.
RECURSIVE NumPathsUpTo(_, _, _)
NumPathsUpTo(t, n, k) ==
    NumPaths(t, n, k) + (IF k = 0 THEN 0 ELSE NumPathsUpTo(t, n, k - 1))

HasTerminal(t, n) == Len(t[n].terminals) > 0

HasChild(t, n) == \E c \in NormalizedChar : t[n].children[c] # 0

\* C20: after any sequence of add calls every node other than the root has a
\* terminal or a populated child, and every node is reached from the root by
\* exactly one path.
C20_TrieStructure ==
    /\ \A n \in 2 .. Len(trie) : HasTerminal(trie, n) \/ HasChild(trie, n)
    /\ \A n \in 1 .. Len(trie) : NumPathsUpTo(trie, n, Len(trie)) = 1

\* Three adds have built a trie with a branching node, an inner node without
\* terminals and a leaf.
C20_Witness ==
    /\ Len(added) = MaxAdds
    /\ \E n \in 2 .. Len(trie) : ~HasTerminal(trie, n) /\ HasChild(trie, n)
    /\ \E n \in 2 .. Len(trie) : HasTerminal(trie, n) /\ ~HasChild(trie, n)
    /\ \E n \in 1 .. Len(trie) :
          Cardinality({c \in NormalizedChar : trie[n].children[c] # 0}) >= 2

\* ------------------------------------------------------------------ C21

\* The path from the root to node n.
RECURSIVE PathTo(_, _)
PathTo(t, n) ==
    IF n = RootId THEN << >>
    ELSE LET pc == CHOOSE x \in (1 .. Len(t)) \X NormalizedChar :
                       t[x[1]].children[x[2]] = n
         IN  Append(PathTo(t, pc[1]), pc[2])

\* The paths of the nodes of a trie.
PathsOf(t) == {PathTo(t, n) : n \in 1 .. Len(t)}

\* C21: add(w, v) keeps every node, appends v to the terminal list of w,
\* leaves the terminal list of every other path as it was, and creates only
\* nodes for prefixes of w that had none.
C21_AddChangesOnlyPath ==
    [][added' # added =>
          LET w == added'[Len(added')].word
              v == added'[Len(added')].value
              before == PathsOf(trie)
              after == PathsOf(trie')
          IN  /\ before \subseteq after
              /\ Len(trie') >= Len(trie)
              /\ \A q \in before : q # w => get(trie', q) = get(trie, q)
              /\ get(trie', w)
                   = Some(IF w \in before THEN Append(get(trie, w)[1], v)
                          ELSE << v >>)
              /\ \A q \in after \ before :
                     /\ IsPrefixSeq(q, w)
                     /\ q # w => get(trie', q) = Some(<< >>)
              /\ \A k \in 0 .. Len(w) : SubSeq(w, 1, k) \in after
              /\ Cardinality(after) = Len(trie')]_vars

\* "C", then "CAR", then "COT" were added: the last add found the nodes of
\* "" and "C", created those of "CO" and "COT", and left "CA" and "CAR" alone.
C21_Witness ==
    /\ Len(added) = 3
    /\ added[1].word = << 2 >>
    /\ added[2].word = << 2, 0, 17 >>
    /\ added[3].word = << 2, 14, 19 >>
    /\ get(trie, << 2, 0, 17 >>) = Some(<< 2 >>)
    /\ get(trie, << 2, 14, 19 >>) = Some(<< 2 >>)
    /\ Len(trie) = 6

\* ------------------------------------------------------------------ C22

WordA == << 0 >>
WordAB == << 0, 1 >>
WordABC == << 0, 1, 2 >>

AllAny(prefix) == \A i \in 1 .. Len(prefix) : prefix[i] = Any

\* The stored pairs of the words of length lo to hi, both included, in
\* spelling order.
StoredInRange(lo, hi) ==
    SelectSeq(InSpellingOrder(added),
              LAMBDA e : lo <= Len(e.word) /\ Len(e.word) <= hi)

\* The root's own terminals, as pairs of the empty word and a payload.
RootTerminals ==
    [k \in 1 .. Len(trie[RootId].terminals) |->
        [word |-> << >>, value |-> trie[RootId].terminals[k]]]

\* C22: depth bounds are inclusive.  An exhausted iter_range(lo ..= hi) has
\* yielded exactly the stored pairs whose word has length lo to hi (2 ..= 2
\* over A, AB, ABC gives AB alone); an exhausted search with the empty pattern
\* and maximum depth 0 has yielded exactly the root's terminals; a search whose
\* maximum depth is smaller than its pattern length never yields anything.
C22_DepthBoundsInclusive ==
    iter # None =>
        LET search == iter[1].search
            lo == Len(search.prefix)
        IN  /\ (search.max_depth # None /\ AllAny(search.prefix)) =>
                  /\ IsPrefixSeq(Yielded, StoredInRange(lo, search.max_depth[1]))
                  /\ Exhausted => Yielded = StoredInRange(lo, search.max_depth[1])
            /\ ( /\ Exhausted
                 /\ search = iter_range(2, 2)
                 /\ Len(added) = 3
                 /\ AddedWords = {WordA, WordAB, WordABC} ) =>
                  /\ Len(Yielded) = 1
                  /\ Yielded[1].word = WordAB
            /\ (Exhausted /\ search = TrieSearchNew(<< >>, Some(0))) =>
                  Yielded = RootTerminals
            /\ (search.max_depth # None /\ search.max_depth[1] < lo) =>
                  Yielded = << >>

\* iter_range(2 ..= 2) over A, AB, ABC is exhausted and has yielded one pair.
C22_Witness ==
    /\ iter # None
    /\ Exhausted
    /\ iter[1].search = iter_range(2, 2)
    /\ Len(added) = 3
    /\ AddedWords = {WordA, WordAB, WordABC}
    /\ Len(Yielded) = 1

\* ------------------------------------------------------------------ C23

\* Whether the visit of an entry puts a terminal on the terminal queue.
EnqueuesTerminal(search, v) ==
    Len(search.prefix) <= Len(v.word) /\ Len(trie[v.node].terminals) > 0

\* Creating a search visits no node.
C23_NewVisitsNothing == (iter # None /\ results = << >>) => visits = << >>

\* After a call that returned an item, the last node visited is the node of
\* that item and every visited node is that node or comes before it in
\* traversal order.
C23_NoVisitPastResult ==
    (iter # None /\ Len(results) > 0 /\ results[Len(results)] # None) =>
        LET word == results[Len(results)][1].word
        IN  /\ Len(visits) > 0
            /\ visits[Len(visits)].word = word
            /\ \A i \in 1 .. Len(visits) :
                   visits[i].word = word \/ WordLess(visits[i].word, word)

\* One next() call: it visits nothing when the terminal queue holds an item;
\* no visit but its last enqueues a terminal; when it returns an item after
\* visiting, the last visit enqueued it; when it returns None no visit did.
C23_CallStopsAtFirstTerminal ==
    (iter # None /\ iter' # None /\ results' # results /\ results' # << >>) =>
        LET search == iter[1].search
            made == SubSeq(visits', Len(visits) + 1, Len(visits'))
            item == results'[Len(results')]
        IN  /\ Len(iter[1].terminal_queue) > 0 => made = << >>
            /\ \A i \in 1 .. Len(made) - 1 : ~EnqueuesTerminal(search, made[i])
            /\ (item # None /\ Len(made) > 0) =>
                   /\ EnqueuesTerminal(search, made[Len(made)])
                   /\ made[Len(made)].word = item[1].word
            /\ item = None => \A i \in 1 .. Len(made) : ~EnqueuesTerminal(search, made[i])

\* Creating a traversal, calling next() and dropping the traversal leave the
\* trie as it was.
C23_TraversalKeepsTrie == (iter # None \/ iter' # None) => trie' = trie

\* C23: enumeration is lazy.  Creating a search visits no node; a next() call
\* visits nodes only while the terminal queue is empty and stops at the first
\* visit that enqueues a terminal; so after k results no node past the node of
\* the k-th result has been visited; and abandoning the traversal at any point
\* leaves the trie unchanged.
C23_EnumerationIsLazy ==
    /\ [](C23_NewVisitsNothing /\ C23_NoVisitPastResult)
    /\ [][C23_CallStopsAtFirstTerminal /\ C23_TraversalKeepsTrie]_vars

\* One item was taken from a traversal of a trie of at least five nodes, two
\* of which were visited; the other nodes have not been.
C23_Witness ==
    /\ iter # None
    /\ Len(results) = 1
    /\ results[1] # None
    /\ Len(trie) >= 5
    /\ Len(visits) = 2
    /\ Len(iter[1].node_queue) >= 1

\* ------------------------------------------------------------------ C24

\* The letters of u are those of v, each as often.
EqualLetters(u, v) == Contains(u, v) /\ Contains(v, u)

\* What an expression says of a word, in letters.
RECURSIVE Means(_, _)
Means(expr, word) ==
    IF expr[1] = "AnagramOf" THEN EqualLetters(word, from_str_safe(expr[2]))
    ELSE IF expr[1] = "SubanagramOf"
    THEN Contains(from_str_safe(expr[2]), word) /\ ~Contains(word, from_str_safe(expr[2]))
    ELSE IF expr[1] = "SuperanagramOf"
    THEN Contains(word, from_str_safe(expr[2])) /\ ~Contains(from_str_safe(expr[2]), word)
    ELSE IF expr[1] = "All"
    THEN \A k \in 1 .. Len(expr[2]) : Means(expr[2][k], word)
    ELSE IF expr[1] = "Any"
    THEN \E k \in 1 .. Len(expr[2]) : Means(expr[2][k], word)
    ELSE TRUE

\* C24: matches evaluates the tree for the candidate.  None and an empty All
\* match every entry, an empty Any matches none; for an entry that has an
\* anagram number, All is the conjunction and Any the disjunction of their
\* members, AnagramOf(q) holds iff the entry has the letters of q,
\* SubanagramOf(q) iff its letters are strictly contained in those of q,
\* SuperanagramOf(q) iff they strictly contain those of q; so an exact
\* anagram satisfies neither SubanagramOf nor SuperanagramOf.
C24_MatchesEvaluatesTree ==
    searched # None =>
        LET expr == searched[1].expr
            outcome == searched[1].outcome
            candidate == CandidateOf(text)
            word == from_str_safe(text)
        IN  /\ outcome \in BOOLEAN
            /\ expr = << "None" >> => outcome
            /\ expr = << "All", << >> >> => outcome
            /\ expr = << "Any", << >> >> => ~outcome
            /\ candidate.anag_num # None =>
                  /\ outcome = Means(expr, word)
                  /\ ( /\ expr[1] \in {"SubanagramOf", "SuperanagramOf"}
                       /\ EqualLetters(word, from_str_safe(expr[2])) ) => ~outcome

\* "bat" was tried against All[SubanagramOf("tab"), ...] or the like: an exact
\* anagram under a combinator holding a SubanagramOf, which did not match.
C24_Witness ==
    /\ searched # None
    /\ text = << 98, 97, 116 >>
    /\ searched[1].expr[1] = "All"
    /\ Len(searched[1].expr[2]) = 2
    /\ searched[1].expr[2][1] = << "SubanagramOf", << 116, 97, 98 >> >>
    /\ searched[1].expr[2][2] = << "None" >>
    /\ ~searched[1].outcome

\* ------------------------------------------------------------------ C25

IsWildcard(ch) == ch \in {63, 46, 32}

\* A character that is neither a wildcard nor stands for a letter.
Unmappable(ch) == ~IsWildcard(ch) /\ LetterFor(ch) = None

\* The prefix held by the value a parsing call returned.
ParsedPrefix(call, value) ==
    IF call = "TriePrefix::from_pattern" THEN value
    ELSE IF call = "TrieSearch::from_prefix" THEN value.prefix
    ELSE value.trie_search[1].prefix

\* C25: from_str_safe drops a character that stands for no letter and always
\* gives a word; TriePrefix::from_pattern, TrieSearch::from_prefix and
\* DictSearch::from_pattern panic with "Unknown search char" exactly when the
\* text holds a character that is neither a wildcard nor stands for a letter,
\* and otherwise return a prefix with one position per character.
C25_UnmappableDroppedOrPanics ==
    /\ normText # None =>
           Len(normText[1])
             = Cardinality({i \in 1 .. Len(text) : LetterFor(text[i]) # None})
    /\ searched # None =>
           LET outcome == searched[1].outcome
               bad == \E i \in 1 .. Len(text) : Unmappable(text[i])
           IN  /\ bad => outcome = Panicked("Unknown search char")
               /\ ~bad =>
                     /\ outcome[1] = "Returned"
                     /\ LET prefix == ParsedPrefix(searched[1].call, outcome[2])
                        IN  /\ Len(prefix) = Len(text)
                            /\ \A i \in 1 .. Len(text) :
                                   prefix[i] = IF IsWildcard(text[i]) THEN Any
                                               ELSE Only(LetterFor(text[i])[1])

\* "a1?" was normalized to the word A, and DictSearch::from_pattern("a1?")
\* panicked.
C25_Witness ==
    /\ text = << 97, 49, 63 >>
    /\ normText = Some(<< 0 >>)
    /\ searched # None
    /\ searched[1].call = "DictSearch::from_pattern"
    /\ searched[1].outcome = Panicked("Unknown search char")

\* ------------------------------------------------------------------ C26

\* The node at the end of the path of a word from a node; 0 when a link on
\* the path is missing.
RECURSIVE NodeAtPath(_, _, _, _)
NodeAtPath(t, node, word, i) ==
    IF i > Len(word) THEN node
    ELSE IF t[node].children[word[i]] = 0 THEN 0
    ELSE NodeAtPath(t, t[node].children[word[i]], word, i + 1)

Min(a, b) == IF a <= b THEN a ELSE b

\* C26: between next() calls every entry of the node worklist pairs a word
\* with the trie node at the path of that word, the word is no longer than
\* the maximum depth when there is one, and its letters satisfy the pattern
\* at every position both have; the entries of the terminal queue all carry
\* one word, which is at least as long as the pattern.
C26_TraversalStateInvariant ==
    iter # None =>
        LET it == iter[1]
            prefix == it.search.prefix
        IN  /\ \A k \in 1 .. Len(it.node_queue) :
                   LET e == it.node_queue[k]
                   IN  /\ e.node = NodeAtPath(trie, RootId, e.word, 1)
                       /\ it.search.max_depth # None =>
                              Len(e.word) <= it.search.max_depth[1]
                       /\ \A i \in 1 .. Min(Len(e.word), Len(prefix)) :
                              prefix[i] = Any \/ prefix[i] = Only(e.word[i])
            /\ \A k \in 1 .. Len(it.terminal_queue) :
                   /\ it.terminal_queue[k].word = it.terminal_queue[1].word
                   /\ Len(it.terminal_queue[k].word) >= Len(prefix)

\* A traversal with a letter in its pattern and a maximum depth, between two
\* calls: an item is left on the terminal queue and a node on the worklist.
C26_Witness ==
    /\ iter # None
    /\ Len(results) >= 1
    /\ Len(iter[1].terminal_queue) >= 1
    /\ Len(iter[1].node_queue) >= 1
    /\ iter[1].search.max_depth # None
    /\ \E i \in 1 .. Len(iter[1].search.prefix) : iter[1].search.prefix[i] # Any
    /\ Len(iter[1].node_queue[1].word) >= 1

\* ------------------------------------------------------------------ C27

\* C27: every prime of PRIMES_MAP is at least 2, and for two words that are
\* permutations of each other the two constructions either both fail with
\* AnagramNumberOverflow or both succeed with the same number.
C27_OverflowIgnoresOrder ==
    /\ \A c \in NormalizedChar : PRIMES_MAP[c + 1] >= 2
    /\ ( /\ num1 # None
         /\ num2 # None
         /\ EqualLetters(from_str_safe(w1), from_str_safe(w2)) ) =>
           /\ IsOk(num1[1]) <=> IsOk(num2[1])
           /\ ~IsOk(num1[1]) => /\ num1[1] = Err(AnagramNumberOverflow)
                                /\ num2[1] = Err(AnagramNumberOverflow)
           /\ IsOk(num1[1]) => num1[1][2] = num2[1][2]

\* 'T' followed by 19 times 'Z', and 19 times 'Z' followed by 'T': both
\* constructions overflowed.
C27_Witness ==
    /\ w1 = << 84 >> \o Repeat(90, 19)
    /\ w2 = Append(Repeat(90, 19), 84)
    /\ num1 = Some(Err(AnagramNumberOverflow))
    /\ num2 = Some(Err(AnagramNumberOverflow))

=============================================================================
